---- MODULE Spec2Model ----
(***************************************************************************)
(* RoutingServer (src/servers/routing_server.py): great-circle distance,   *)
(* bearing, direction label, route estimate and proximity filter.          *)
(*                                                                         *)
(* Numbers.  A Python float is modelled as a decimal fixed-point number:   *)
(* the integer v stands for v / Scale.  Every float operation rounds its   *)
(* result to the nearest representable value (ties to even), as binary64   *)
(* does, only with a coarser grain.  Python ints stay exact integers.      *)
(* The math library (sin, cos, sqrt, atan2, radians, degrees) is modelled  *)
(* by fixed-point approximations with the same symmetries; math.sqrt of a  *)
(* negative number raises ValueError.                                      *)
(*                                                                         *)
(* GeocodingServer (src/servers/geocoding_server.py) and WeatherServer     *)
(* (src/servers/weather_server.py): the rate limit, the requests and what  *)
(* the operations return for every answer of the upstream service.  A call *)
(* of these advances from one suspension point to the next; the clock is   *)
(* in seconds, in the same fixed-point representation.                     *)
(*                                                                         *)
(* MapAgentDemo (src/agent_demo.py): execute_function, which hands a tool  *)
(* call to the server that advertises its name, and the loop of chat,      *)
(* which advances from one chat-completion request or tool call to the     *)
(* next.                                                                   *)
(*                                                                         *)
(* Spec is the behaviour of the RoutingServer calls, SpecHttp that of the  *)
(* calls of the two HTTP wrappers, SpecConcurrent that of several          *)
(* coroutines calling one GeocodingServer, SpecChat that of chat.          *)
(***************************************************************************)
EXTENDS Integers, Sequences, FiniteSets, Bags, TLC

Scale == 1000

MaxLocs == 3

MaxShort == 120

(* longest list of origins or of destinations given to distance_matrix *)
MaxPoints == 2

(* how many steps of half a second the clock makes *)
MaxTicks == 4

(* how many coroutines call the one GeocodingServer *)
MaxTasks == 2

(* the largest max_iterations given to chat *)
MaxIterations == 2

(* value of a missing dictionary entry, dict.get(key) -> None *)
None == 999999999

(* outcome of a call that raises ValueError (math domain error) *)
ValueError == -999999999

Abs(x) == IF x < 0 THEN -x ELSE x

Sign(x) == IF x < 0 THEN -1 ELSE 1

(* n / d rounded to the nearest integer, ties to the even one (d > 0) *)
RoundDiv(n, d) ==
    LET q == n \div d
        r == n % d
    IN  IF 2 * r < d THEN q
        ELSE IF 2 * r > d THEN q + 1
        ELSE IF q % 2 = 0 THEN q ELSE q + 1

(* float * float, rounded to the grain; split so that no product overflows *)
FMul(x, y) == (x \div Scale) * y + RoundDiv((x % Scale) * y, Scale)

(* float / float, rounded to the grain *)
FDiv(x, y) == IF y < 0 THEN RoundDiv((-x) * Scale, -y) ELSE RoundDiv(x * Scale, y)

(* float / int, rounded to the grain *)
FDivInt(x, n) == RoundDiv(x, n)

(* round(x, ndigits) for ndigits in 0..3: Python rounds half to even *)
Pow10(n) == IF n = 0 THEN 1 ELSE IF n = 1 THEN 10 ELSE IF n = 2 THEN 100 ELSE 1000

Round(x, ndigits) ==
    LET g == Scale \div Pow10(ndigits)
    IN  RoundDiv(x, g) * g

(* round(x / n) for an int n > 0, giving an int: the quotient k + 1/2 is hit *)
(* exactly when x is exactly (k + 1/2) * n                                   *)
RoundQuot(x, n) == RoundDiv(x, n * Scale)

(* float literal a.bcd *)
Lit(units, thousandths) == units * Scale + thousandths

PI == 3142

(* math.sin: Bhaskara's rational approximation on [0, pi], odd and 2pi-periodic *)
SinHalfTurn(y) ==
    LET P == y * (PI - y)
    IN  RoundDiv(16 * P, (5 * PI * PI - 4 * P) \div Scale)

sin(x) ==
    LET y == x % (2 * PI)
    IN  IF y <= PI THEN SinHalfTurn(y) ELSE -SinHalfTurn(y - PI)

cos(x) == sin(x + PI \div 2)

(* math.sqrt: the root of a non-negative float, ValueError for a negative one *)
RECURSIVE ISqrtBetween(_, _, _)
ISqrtBetween(n, lo, hi) ==
    IF lo = hi THEN lo
    ELSE LET mid == (lo + hi + 1) \div 2
         IN  IF mid * mid <= n THEN ISqrtBetween(n, mid, hi)
             ELSE ISqrtBetween(n, lo, mid - 1)

sqrt(x) == IF x < 0 THEN ValueError ELSE ISqrtBetween(x * Scale, 0, 2 * Scale)

(* math.atan on [0, 1] *)
AtanUnit(z) == FMul(z, PI \div 4 + FMul(273, Scale - z))

(* math.atan2(y, x), in (-pi, pi] *)
atan2(y, x) ==
    IF x = 0 /\ y = 0 THEN 0
    ELSE LET ax == Abs(x)
             ay == Abs(y)
             base == IF ay <= ax THEN AtanUnit(FDiv(ay, ax))
                     ELSE PI \div 2 - AtanUnit(FDiv(ax, ay))
         IN  IF x >= 0 THEN Sign(y) * base ELSE Sign(y) * (PI - base)

radians(x) == RoundDiv(x * PI, 180 * Scale)

degrees(x) == RoundDiv(x * 180 * Scale, PI)

VARIABLES
    earth_radius_km,   \* self.earth_radius_km
    pc,                \* "idle": no call in progress; "done": a call has returned
    op,                \* the operation called last
    center,            \* find_nearby: <<center_lat, center_lon>>
    radius_km,         \* find_nearby: radius_km
    locations,         \* find_nearby: the caller's list of records
    given,             \* the caller's list as it was when the call was made
    route_args,        \* calculate_route, _calculate_distance: start, end, mode
    matrix_args,       \* distance_matrix: origins, destinations
    bearing_arg,       \* _bearing_to_direction: bearing
    result             \* the value returned

(* GeocodingServer and WeatherServer, their upstream services and the clock *)
VARIABLES
    now,               \* time.time(), in seconds
    last_request_time, \* GeocodingServer: self.last_request_time
    call,              \* the arguments of the wrapper call in progress
    entered,           \* the time at which that call was made
    wake,              \* _rate_limit: the time at which asyncio.sleep is over
    request,           \* the HTTP request in flight
    sent,              \* the requests the call in progress has issued so far
    last_issue         \* per wrapper, the time of the request issued last

(* MapAgentDemo.chat, and the coroutines that share one GeocodingServer *)
VARIABLES
    chat_pc,           \* chat: "idle", "requesting", "executing", "returned", "raised"
    max_iterations,    \* chat: max_iterations
    iteration,         \* chat: the chat-completion requests made so far
    messages,          \* chat: messages
    tool_calls,        \* chat: message.tool_calls of the response being handled
    next_call,         \* chat: the position in tool_calls of the call to execute next
    completions,       \* chat: the messages passed with each chat-completion request
    chat_result,       \* chat: the text returned or the exception raised
    tasks,             \* per coroutine, the GeocodingServer call it is in
    issued             \* the requests the coroutines have issued, in the order issued

routingVars == <<earth_radius_km, center, radius_km, locations, given,
                 route_args, matrix_args, bearing_arg>>

httpVars == <<now, last_request_time, call, entered, wake, request, sent, last_issue>>

chatVars == <<chat_pc, max_iterations, iteration, messages, tool_calls, next_call,
              completions, chat_result>>

taskVars == <<tasks, issued>>

agentVars == <<chatVars, taskVars>>

vars == <<earth_radius_km, pc, op, center, radius_km, locations, given,
          route_args, matrix_args, bearing_arg, result,
          now, last_request_time, call, entered, wake, request, sent, last_issue,
          chat_pc, max_iterations, iteration, messages, tool_calls, next_call,
          completions, chat_result, tasks, issued>>

(* ---------------- geometry: lines 25-67 ---------------- *)

_calculate_distance(lat1, lon1, lat2, lon2) ==
    LET R == earth_radius_km
        lat1_rad == radians(lat1)
        lat2_rad == radians(lat2)
        delta_lat == radians(lat2 - lat1)
        delta_lon == radians(lon2 - lon1)
        s1 == sin(FDivInt(delta_lat, 2))
        s2 == sin(FDivInt(delta_lon, 2))
        a == FMul(s1, s1) + FMul(FMul(cos(lat1_rad), cos(lat2_rad)), FMul(s2, s2))
        c == 2 * atan2(sqrt(a), sqrt(Scale - a))
    IN  IF sqrt(Scale - a) = ValueError THEN ValueError ELSE R * c

(* GeocodingServer._calculate_distance, geocoding_server.py lines 218-237: *)
(* the same formula with its own R = 6371                                  *)
Geocoding_calculate_distance(lat1, lon1, lat2, lon2) ==
    LET R == 6371
        lat1_rad == radians(lat1)
        lat2_rad == radians(lat2)
        delta_lat == radians(lat2 - lat1)
        delta_lon == radians(lon2 - lon1)
        s1 == sin(FDivInt(delta_lat, 2))
        s2 == sin(FDivInt(delta_lon, 2))
        a == FMul(s1, s1) + FMul(FMul(cos(lat1_rad), cos(lat2_rad)), FMul(s2, s2))
        c == 2 * atan2(sqrt(a), sqrt(Scale - a))
    IN  IF sqrt(Scale - a) = ValueError THEN ValueError ELSE R * c

(* a slip: the bearing shifted by a turn and not reduced *)
_calculate_bearing_unreduced(lat1, lon1, lat2, lon2) ==
    LET lat1_rad == radians(lat1)
        lat2_rad == radians(lat2)
        delta_lon == radians(lon2 - lon1)
        x == FMul(sin(delta_lon), cos(lat2_rad))
        y == FMul(cos(lat1_rad), sin(lat2_rad))
             - FMul(FMul(sin(lat1_rad), cos(lat2_rad)), cos(delta_lon))
        bearing == atan2(x, y)
    IN  degrees(bearing) + 360 * Scale

_calculate_bearing(lat1, lon1, lat2, lon2) ==
    LET lat1_rad == radians(lat1)
        lat2_rad == radians(lat2)
        delta_lon == radians(lon2 - lon1)
        x == FMul(sin(delta_lon), cos(lat2_rad))
        y == FMul(cos(lat1_rad), sin(lat2_rad))
             - FMul(FMul(sin(lat1_rad), cos(lat2_rad)), cos(delta_lon))
        bearing == atan2(x, y)
    IN  (degrees(bearing) + 360 * Scale) % (360 * Scale)

directions ==
    <<"North", "Northeast", "East", "Southeast", "South", "Southwest", "West", "Northwest">>

(* a slip: int(bearing / 45), truncation instead of rounding *)
DirectionIndexFloor(bearing) == (bearing \div (45 * Scale)) % 8

(* a slip: halves rounded up, int(bearing / 45 + 0.5) *)
DirectionIndexHalfUp(bearing) == ((bearing + 22500) \div (45 * Scale)) % 8

DirectionIndex(bearing) == RoundQuot(bearing, 45) % 8

_bearing_to_direction(bearing) == directions[DirectionIndex(bearing) + 1]

(* ---------------- calculate_route: lines 69-145 ---------------- *)

route_factor == [driving |-> Lit(1, 300), walking |-> Lit(1, 200), cycling |-> Lit(1, 250)]

avg_speeds == [driving |-> 60, walking |-> 5, cycling |-> 20]

(* a slip: route_factor.get(mode, 1.0) *)
RouteFactorDefaultOne(mode) ==
    IF mode \in DOMAIN route_factor THEN route_factor[mode] ELSE Lit(1, 0)

(* route_factor.get(mode, 1.3) *)
RouteFactor(mode) ==
    IF mode \in DOMAIN route_factor THEN route_factor[mode] ELSE Lit(1, 300)

(* a slip: the speeds of walking and cycling exchanged *)
AvgSpeedSwapped(mode) ==
    IF mode = "walking" THEN 20 ELSE IF mode = "cycling" THEN 5 ELSE 60

(* avg_speeds.get(mode, 60) *)
AvgSpeed(mode) ==
    IF mode \in DOMAIN avg_speeds THEN avg_speeds[mode] ELSE 60

(* f'{x:.1f} km' for x >= 0 *)
FormatKm(x) ==
    LET t == RoundDiv(x, Scale \div 10)
    IN  ToString(t \div 10) \o "." \o ToString(t % 10) \o " km"

(* int(x) for x >= 0 *)
IntOf(x) == x \div Scale

(* a slip: the form chosen on the duration as reported, rounded to 1 decimal *)
DurationTextOnRounded(estimated_time_minutes) ==
    IF Round(estimated_time_minutes, 1) >= 60 * Scale
    THEN ToString(IntOf((estimated_time_minutes \div (60 * Scale)) * Scale)) \o "h "
         \o ToString(IntOf(estimated_time_minutes % (60 * Scale))) \o "m"
    ELSE ToString(IntOf(estimated_time_minutes)) \o " min"

(* a slip: the hours form only above 60 minutes *)
DurationTextStrictlyOver(estimated_time_minutes) ==
    IF estimated_time_minutes > 60 * Scale
    THEN ToString(IntOf((estimated_time_minutes \div (60 * Scale)) * Scale)) \o "h "
         \o ToString(IntOf(estimated_time_minutes % (60 * Scale))) \o "m"
    ELSE ToString(IntOf(estimated_time_minutes)) \o " min"

(* the duration_text expression of line 138 *)
DurationText(estimated_time_minutes) ==
    IF estimated_time_minutes >= 60 * Scale
    THEN ToString(IntOf((estimated_time_minutes \div (60 * Scale)) * Scale)) \o "h "
         \o ToString(IntOf(estimated_time_minutes % (60 * Scale))) \o "m"
    ELSE ToString(IntOf(estimated_time_minutes)) \o " min"

EstimatedDistance(start_lat, start_lon, end_lat, end_lon, mode) ==
    FMul(_calculate_distance(start_lat, start_lon, end_lat, end_lon), RouteFactor(mode))

EstimatedTimeMinutes(estimated_distance, mode) ==
    LET speed == AvgSpeed(mode)
        estimated_time_hours == FDivInt(estimated_distance, speed)
    IN  estimated_time_hours * 60

(* a slip: the middle step carries 70% *)
StepsSeventy(estimated_distance, direction) ==
    << [instruction |-> "Head " \o direction,
        distance_km |-> FMul(estimated_distance, Lit(0, 100)),
        distance_text |-> FormatKm(FMul(estimated_distance, Lit(0, 100)))],
       [instruction |-> "Continue " \o direction,
        distance_km |-> FMul(estimated_distance, Lit(0, 700)),
        distance_text |-> FormatKm(FMul(estimated_distance, Lit(0, 700)))],
       [instruction |-> "Arrive at destination",
        distance_km |-> FMul(estimated_distance, Lit(0, 100)),
        distance_text |-> FormatKm(FMul(estimated_distance, Lit(0, 100)))] >>

Steps(estimated_distance, direction) ==
    << [instruction |-> "Head " \o direction,
        distance_km |-> FMul(estimated_distance, Lit(0, 100)),
        distance_text |-> FormatKm(FMul(estimated_distance, Lit(0, 100)))],
       [instruction |-> "Continue " \o direction,
        distance_km |-> FMul(estimated_distance, Lit(0, 800)),
        distance_text |-> FormatKm(FMul(estimated_distance, Lit(0, 800)))],
       [instruction |-> "Arrive at destination",
        distance_km |-> FMul(estimated_distance, Lit(0, 100)),
        distance_text |-> FormatKm(FMul(estimated_distance, Lit(0, 100)))] >>

calculate_route(start_lat, start_lon, end_lat, end_lon, mode) ==
    LET bearing == _calculate_bearing(start_lat, start_lon, end_lat, end_lon)
        direction == _bearing_to_direction(bearing)
        estimated_distance == EstimatedDistance(start_lat, start_lon, end_lat, end_lon, mode)
        estimated_time_minutes == EstimatedTimeMinutes(estimated_distance, mode)
    IN  IF _calculate_distance(start_lat, start_lon, end_lat, end_lon) = ValueError
        THEN ValueError
        ELSE
        [distance_km |-> Round(estimated_distance, 2),
         distance_text |-> FormatKm(estimated_distance),
         duration_minutes |-> Round(estimated_time_minutes, 1),
         duration_text |-> DurationText(estimated_time_minutes),
         mode |-> mode,
         steps |-> Steps(estimated_distance, direction),
         start_coordinates |-> [latitude |-> start_lat, longitude |-> start_lon],
         end_coordinates |-> [latitude |-> end_lat, longitude |-> end_lon],
         bearing |-> Round(bearing, 1),
         direction |-> direction]

(* ---------------- find_nearby: lines 188-233 ---------------- *)

(* a slip: dict.get(key, 0) *)
GetOrZero(d, key) == IF key \in DOMAIN d THEN d[key] ELSE 0

(* dict.get(key) *)
Get(d, key) == IF key \in DOMAIN d THEN d[key] ELSE None

(* a slip: "if not lat or not lon" *)
HasCoordinatesTruthy(lat, lon) == ~(lat = None \/ lat = 0 \/ lon = None \/ lon = 0)

(* the test of line 213 negated: both coordinates are there *)
HasCoordinates(lat, lon) == ~(lat = None \/ lon = None)

(* a slip: the comparison the wrong way round *)
WithinRadiusFlipped(distance, radius) == distance >= radius

(* the test of line 218 *)
WithinRadius(distance, radius) == distance <= radius

(* {**location, ...}: a new dict, the keys on the right winning *)
Merge(location, extra) ==
    [k \in DOMAIN location \cup DOMAIN extra |->
        IF k \in DOMAIN extra THEN extra[k] ELSE location[k]]

(* the body of the for loop, lines 210-228: nearby after one location *)
NearbyAfter(list, location, center_lat, center_lon, radius) ==
    LET lat == Get(location, "latitude")
        lon == Get(location, "longitude")
    IN  IF ~HasCoordinates(lat, lon) THEN list
        ELSE LET distance == _calculate_distance(center_lat, center_lon, lat, lon)
             IN  IF ~WithinRadius(distance, radius) THEN list
                 ELSE LET bearing == _calculate_bearing(center_lat, center_lon, lat, lon)
                          direction == _bearing_to_direction(bearing)
                      IN  Append(list, Merge(location,
                              [distance_km |-> Round(distance, 2),
                               bearing |-> Round(bearing, 1),
                               direction |-> direction]))

(* a slip: a sort that puts an element before those of equal key *)
RECURSIVE InsertBeforeEqual(_, _)
InsertBeforeEqual(sorted, x) ==
    IF sorted = <<>> THEN <<x>>
    ELSE LET last == sorted[Len(sorted)]
         IN  IF last.distance_km < x.distance_km THEN Append(sorted, x)
             ELSE Append(InsertBeforeEqual(SubSeq(sorted, 1, Len(sorted) - 1), x), last)

(* list.sort(key=...): stable, an element goes after those whose key is <= its own *)
RECURSIVE InsertByDistance(_, _)
InsertByDistance(sorted, x) ==
    IF sorted = <<>> THEN <<x>>
    ELSE LET last == sorted[Len(sorted)]
         IN  IF last.distance_km <= x.distance_km THEN Append(sorted, x)
             ELSE Append(InsertByDistance(SubSeq(sorted, 1, Len(sorted) - 1), x), last)

RECURSIVE SortByDistance(_)
SortByDistance(list) ==
    IF list = <<>> THEN <<>>
    ELSE InsertByDistance(SortByDistance(SubSeq(list, 1, Len(list) - 1)), list[Len(list)])

(* the for loop as a whole, lines 207-228: nearby before the sort *)
RECURSIVE NearbyOf(_, _, _, _)
NearbyOf(list, center_lat, center_lon, radius) ==
    IF list = <<>> THEN <<>>
    ELSE NearbyAfter(NearbyOf(SubSeq(list, 1, Len(list) - 1), center_lat, center_lon, radius),
                     list[Len(list)], center_lat, center_lon, radius)

(* find_nearby as a function of its arguments, lines 207-233 *)
find_nearby(center_lat, center_lon, list, radius) ==
    IF \E i \in 1..Len(list) :
          /\ HasCoordinates(Get(list[i], "latitude"), Get(list[i], "longitude"))
          /\ _calculate_distance(center_lat, center_lon, Get(list[i], "latitude"),
                                 Get(list[i], "longitude")) = ValueError
    THEN ValueError
    ELSE SortByDistance(NearbyOf(list, center_lat, center_lon, radius))

(* ---------------- distance_matrix: lines 147-186 ---------------- *)

(* a slip: the factor of walking instead of that of driving *)
MatrixRouteDistanceWalking(distance) == FMul(distance, Lit(1, 200))

(* a slip: the road factor without its unit, 0.3 *)
MatrixRouteDistanceShrunk(distance) == FMul(distance, Lit(0, 300))

(* route_distance = distance * 1.3 *)
MatrixRouteDistance(distance) == FMul(distance, Lit(1, 300))

(* a slip: the two indices exchanged *)
MatrixCellSwapped(i, j, origin, destination) ==
    LET distance == _calculate_distance(origin[1], origin[2], destination[1], destination[2])
        route_distance == MatrixRouteDistance(distance)
        time_minutes == FDivInt(route_distance, 60) * 60
    IN  [distance_km |-> Round(distance, 2),
         route_distance_km |-> Round(route_distance, 2),
         duration_minutes |-> Round(time_minutes, 1),
         origin_index |-> j,
         destination_index |-> i]

(* the cell appended for the i-th origin and j-th destination, i and j as *)
(* enumerate counts them (from 0)                                          *)
MatrixCell(i, j, origin, destination) ==
    LET distance == _calculate_distance(origin[1], origin[2], destination[1], destination[2])
        route_distance == MatrixRouteDistance(distance)
        time_minutes == FDivInt(route_distance, 60) * 60
    IN  [distance_km |-> Round(distance, 2),
         route_distance_km |-> Round(route_distance, 2),
         duration_minutes |-> Round(time_minutes, 1),
         origin_index |-> i,
         destination_index |-> j]

PointRecord(point) == [latitude |-> point[1], longitude |-> point[2]]

distance_matrix(origins, destinations) ==
    IF \E i \in 1..Len(origins) : \E j \in 1..Len(destinations) :
          _calculate_distance(origins[i][1], origins[i][2],
                              destinations[j][1], destinations[j][2]) = ValueError
    THEN ValueError
    ELSE
    [origins |-> [i \in 1..Len(origins) |-> PointRecord(origins[i])],
     destinations |-> [j \in 1..Len(destinations) |-> PointRecord(destinations[j])],
     matrix |-> [i \in 1..Len(origins) |->
                   [j \in 1..Len(destinations) |->
                      MatrixCell(i - 1, j - 1, origins[i], destinations[j])]]]

(* ---------------- the HTTP wrappers: what they exchange ---------------- *)

(* self.min_request_interval = 1.0 *)
min_request_interval == Lit(1, 0)

(* the clock: time.time() when the servers are constructed, and its step *)
StartTime == 100 * Scale

TickLength == Scale \div 2

base_url == "https://nominatim.openstreetmap.org"

weather_api_base == "https://api.open-meteo.com/v1"

NoCall == [op |-> "none"]

NoRequest == [server |-> "none"]

(* a response body: not JSON at all, a JSON array, a JSON object *)
NotJSON == [shape |-> "invalid"]

JSONList(items) == [shape |-> "list", items |-> items]

JSONObject(fields) == [shape |-> "object", fields |-> fields]

(* what comes back for a request: a response, an exception of aiohttp, nothing yet *)
Response(status, body) == [kind |-> "response", status |-> status, body |-> body]

ClientError == [kind |-> "exception", message |-> "Cannot connect to host"]

Pending == [kind |-> "pending"]

(* how a block of code ends: with a value, or with an Exception raised *)
Returned(value) == [raised |-> FALSE, value |-> value]

Raised(message) == [raised |-> TRUE, message |-> message]

(* a slip: no except clause, the exception leaves the call *)
Uncaught(message) == [raised |-> TRUE, message |-> message]

(* except Exception as e: {'error': str(e)} *)
Caught(message) == [error |-> message]

(* {'error': f"API returned status {response.status}"} *)
StatusError(status) == [error |-> "API returned status " \o ToString(status)]

(* repr of a float with at most three decimals *)
FractionText(f) ==
    IF f % 100 = 0 THEN ToString(f \div 100)
    ELSE IF f % 10 = 0
         THEN (IF f < 100 THEN "0" ELSE "") \o ToString(f \div 10)
         ELSE (IF f < 10 THEN "00" ELSE IF f < 100 THEN "0" ELSE "") \o ToString(f)

Repr(x) ==
    (IF x < 0 THEN "-" ELSE "") \o ToString(Abs(x) \div Scale) \o "."
    \o FractionText(Abs(x) % Scale)

(* d.get(key, {}) and d.get(key, []): an empty dict and an empty list alike are <<>> *)
GetOrEmpty(d, key) == IF key \in DOMAIN d THEN d[key] ELSE <<>>

(* response.json() raising, and the exceptions of the parsing code *)
ContentTypeMessage == "Attempt to decode JSON with unexpected mimetype"

FloatOfNoneMessage == "float() argument must be a string or a real number, not 'NoneType'"

StrHasNoGetMessage == "'str' object has no attribute 'get'"

ListHasNoGetMessage == "'list' object has no attribute 'get'"

IndexMessage == "list index out of range"

MathDomainMessage == "math domain error"

(* float(item.get('lat')) or float(item.get('lon')) raises TypeError *)
ItemRaises(item) == Get(item, "lat") = None \/ Get(item, "lon") = None

(* ---------------- GeocodingServer: lines 37-216 ---------------- *)

GeocodeRequest(c) ==
    [server |-> "geocoding", url |-> base_url \o "/search",
     params |-> [q |-> c.address, format |-> "json", limit |-> c.limit, addressdetails |-> 1]]

ReverseRequest(c) ==
    [server |-> "geocoding", url |-> base_url \o "/reverse",
     params |-> [lat |-> c.latitude, lon |-> c.longitude, format |-> "json",
                 addressdetails |-> 1]]

(* near_lat is not None and near_lon is not None *)
IsNear(c) == c.near_lat # None /\ c.near_lon # None

SearchRequest(c) ==
    [server |-> "geocoding", url |-> base_url \o "/search",
     params |->
        IF IsNear(c)
        THEN LET lat_delta == Lit(0, 45)
                 lon_delta == Lit(0, 45)
             IN  [q |-> c.query, format |-> "json", limit |-> c.limit,
                  viewbox |-> Repr(c.near_lon - lon_delta) \o "," \o Repr(c.near_lat + lat_delta)
                              \o "," \o Repr(c.near_lon + lon_delta) \o ","
                              \o Repr(c.near_lat - lat_delta),
                  bounded |-> 1, addressdetails |-> 1]
        ELSE [q |-> c.query, format |-> "json", limit |-> c.limit, addressdetails |-> 1]]

(* the status 200 branch of geocode, lines 68-80 *)
GeocodeParse(body) ==
    IF body.shape = "invalid" THEN Raised(ContentTypeMessage)
    ELSE IF body.shape = "object"
    THEN IF DOMAIN body.fields = {} THEN Returned(<<>>) ELSE Raised(StrHasNoGetMessage)
    ELSE IF \E i \in 1..Len(body.items) : ItemRaises(body.items[i])
    THEN Raised(FloatOfNoneMessage)
    ELSE Returned([i \in 1..Len(body.items) |->
            LET item == body.items[i]
            IN  [display_name |-> Get(item, "display_name"),
                 latitude |-> item.lat,
                 longitude |-> item.lon,
                 type |-> Get(item, "type"),
                 importance |-> Get(item, "importance"),
                 address |-> GetOrEmpty(item, "address")]])

(* geocode from the answer on: lines 61-84 *)
geocode(c, outcome) ==
    IF outcome.kind = "exception" THEN << Caught(outcome.message) >>
    ELSE IF outcome.status = 200
    THEN LET parsed == GeocodeParse(outcome.body)
         IN  IF parsed.raised THEN << Caught(parsed.message) >> ELSE parsed.value
    ELSE << StatusError(outcome.status) >>

(* the status 200 branch of reverse_geocode, lines 117-125 *)
ReverseParse(c, body) ==
    IF body.shape = "invalid" THEN Raised(ContentTypeMessage)
    ELSE IF body.shape = "list" THEN Raised(ListHasNoGetMessage)
    ELSE Returned([display_name |-> Get(body.fields, "display_name"),
                   address |-> GetOrEmpty(body.fields, "address"),
                   type |-> Get(body.fields, "type"),
                   latitude |-> c.latitude,
                   longitude |-> c.longitude])

(* reverse_geocode from the answer on: lines 110-129 *)
reverse_geocode(c, outcome) ==
    IF outcome.kind = "exception" THEN Caught(outcome.message)
    ELSE IF outcome.status = 200
    THEN LET parsed == ReverseParse(c, outcome.body)
         IN  IF parsed.raised THEN Caught(parsed.message) ELSE parsed.value
    ELSE StatusError(outcome.status)

(* the record search_places builds for one item, lines 189-206 *)
SearchItem(c, item) ==
    LET place == [name |-> Get(item, "display_name"),
                  latitude |-> item.lat,
                  longitude |-> item.lon,
                  type |-> Get(item, "type"),
                  category |-> Get(item, "class"),
                  address |-> GetOrEmpty(item, "address")]
    IN  IF IsNear(c)
        THEN Merge(place, [distance_km |->
                 Geocoding_calculate_distance(c.near_lat, c.near_lon, item.lat, item.lon)])
        ELSE place

(* the exception the loop body raises on one item, "" if it raises none *)
SearchItemMessage(c, item) ==
    IF ItemRaises(item) THEN FloatOfNoneMessage
    ELSE IF /\ IsNear(c)
            /\ Geocoding_calculate_distance(c.near_lat, c.near_lon, item.lat, item.lon)
                   = ValueError
    THEN MathDomainMessage
    ELSE ""

(* a slip: the results left in the order the upstream service gave them *)
SearchParseUnsorted(c, body) ==
    IF body.shape = "invalid" THEN Raised(ContentTypeMessage)
    ELSE IF body.shape = "object"
    THEN IF DOMAIN body.fields = {} THEN Returned(<<>>) ELSE Raised(StrHasNoGetMessage)
    ELSE LET raising == { i \in 1..Len(body.items) :
                            SearchItemMessage(c, body.items[i]) # "" }
         IN  IF raising # {}
             THEN LET first == CHOOSE i \in raising : \A j \in raising : i <= j
                  IN  Raised(SearchItemMessage(c, body.items[first]))
             ELSE Returned([i \in 1..Len(body.items) |-> SearchItem(c, body.items[i])])

(* the status 200 branch of search_places, lines 185-212 *)
SearchParse(c, body) ==
    IF body.shape = "invalid" THEN Raised(ContentTypeMessage)
    ELSE IF body.shape = "object"
    THEN IF DOMAIN body.fields = {} THEN Returned(<<>>) ELSE Raised(StrHasNoGetMessage)
    ELSE LET raising == { i \in 1..Len(body.items) :
                            SearchItemMessage(c, body.items[i]) # "" }
         IN  IF raising # {}
             THEN LET first == CHOOSE i \in raising : \A j \in raising : i <= j
                  IN  Raised(SearchItemMessage(c, body.items[first]))
             ELSE LET results == [i \in 1..Len(body.items) |->
                                     SearchItem(c, body.items[i])]
                  IN  Returned(IF IsNear(c) THEN SortByDistance(results) ELSE results)

(* search_places from the answer on: lines 178-216 *)
search_places(c, outcome) ==
    IF outcome.kind = "exception" THEN << Caught(outcome.message) >>
    ELSE IF outcome.status = 200
    THEN LET parsed == SearchParse(c, outcome.body)
         IN  IF parsed.raised THEN << Caught(parsed.message) >> ELSE parsed.value
    ELSE << StatusError(outcome.status) >>

(* ---------------- WeatherServer: lines 25-225 ---------------- *)

code_map ==
    [code \in {0, 1, 2, 3, 45, 48, 51, 53, 55, 56, 57, 61, 63, 65, 66, 67, 71, 73, 75, 77,
               80, 81, 82, 85, 86, 95, 96, 99} |->
        CASE code = 0 -> "Clear sky"
          [] code = 1 -> "Mainly clear"
          [] code = 2 -> "Partly cloudy"
          [] code = 3 -> "Overcast"
          [] code = 45 -> "Foggy"
          [] code = 48 -> "Depositing rime fog"
          [] code = 51 -> "Light drizzle"
          [] code = 53 -> "Moderate drizzle"
          [] code = 55 -> "Dense drizzle"
          [] code = 56 -> "Light freezing drizzle"
          [] code = 57 -> "Dense freezing drizzle"
          [] code = 61 -> "Slight rain"
          [] code = 63 -> "Moderate rain"
          [] code = 65 -> "Heavy rain"
          [] code = 66 -> "Light freezing rain"
          [] code = 67 -> "Heavy freezing rain"
          [] code = 71 -> "Slight snow"
          [] code = 73 -> "Moderate snow"
          [] code = 75 -> "Heavy snow"
          [] code = 77 -> "Snow grains"
          [] code = 80 -> "Slight rain showers"
          [] code = 81 -> "Moderate rain showers"
          [] code = 82 -> "Violent rain showers"
          [] code = 85 -> "Slight snow showers"
          [] code = 86 -> "Heavy snow showers"
          [] code = 95 -> "Thunderstorm"
          [] code = 96 -> "Thunderstorm with slight hail"
          [] OTHER -> "Thunderstorm with heavy hail"]

(* code_map.get(code, f"Unknown weather (code {code})") *)
_interpret_weather_code(code) ==
    IF code \in DOMAIN code_map THEN code_map[code]
    ELSE "Unknown weather (code " \o ToString(code) \o ")"

(* location_name or f"{latitude}, {longitude}"; no name is the empty string *)
LocationText(c) ==
    IF c.location_name # "" THEN c.location_name
    ELSE Repr(c.latitude) \o ", " \o Repr(c.longitude)

CurrentRequest(c) ==
    [server |-> "weather", url |-> weather_api_base \o "/forecast",
     params |-> [latitude |-> c.latitude, longitude |-> c.longitude,
                 current_weather |-> "true", temperature_unit |-> "fahrenheit",
                 windspeed_unit |-> "mph"]]

(* a slip: min and max exchanged *)
ClampDaysSwapped(days) ==
    LET atMost == IF days < 1 THEN days ELSE 1
    IN  IF atMost > 16 THEN atMost ELSE 16

(* days = min(max(days, 1), 16) *)
ClampDays(days) ==
    LET atLeast == IF days > 1 THEN days ELSE 1
    IN  IF atLeast < 16 THEN atLeast ELSE 16

ForecastRequest(c) ==
    [server |-> "weather", url |-> weather_api_base \o "/forecast",
     params |-> [latitude |-> c.latitude, longitude |-> c.longitude,
                 daily |-> "temperature_2m_max,temperature_2m_min,precipitation_sum,weathercode",
                 temperature_unit |-> "fahrenheit", precipitation_unit |-> "inch",
                 forecast_days |-> ClampDays(c.days)]]

(* the status 200 branch of get_weather, lines 57-74 *)
CurrentParse(c, body) ==
    IF body.shape = "invalid" THEN Raised(ContentTypeMessage)
    ELSE IF body.shape = "list" THEN Raised(ListHasNoGetMessage)
    ELSE LET current == GetOrEmpty(body.fields, "current_weather")
             weather_code == IF "weathercode" \in DOMAIN current
                             THEN current.weathercode ELSE 0
         IN  Returned([location |-> LocationText(c),
                       latitude |-> c.latitude,
                       longitude |-> c.longitude,
                       temperature_f |-> Get(current, "temperature"),
                       windspeed_mph |-> Get(current, "windspeed"),
                       wind_direction |-> Get(current, "winddirection"),
                       weather_code |-> weather_code,
                       weather_description |-> _interpret_weather_code(weather_code),
                       time |-> Get(current, "time"),
                       is_day |-> (Get(current, "is_day") = 1)])

(* get_weather from the answer on: lines 50-79 *)
get_weather(c, outcome) ==
    IF outcome.kind = "exception" THEN Caught(outcome.message)
    ELSE IF outcome.status = 200
    THEN LET parsed == CurrentParse(c, outcome.body)
         IN  IF parsed.raised THEN Caught(parsed.message) ELSE parsed.value
    ELSE StatusError(outcome.status)

(* the status 200 branch of weather_forecast, lines 118-143 *)
ForecastParse(c, body) ==
    IF body.shape = "invalid" THEN Raised(ContentTypeMessage)
    ELSE IF body.shape = "list" THEN Raised(ListHasNoGetMessage)
    ELSE LET daily == GetOrEmpty(body.fields, "daily")
             dates == GetOrEmpty(daily, "time")
             max_temps == GetOrEmpty(daily, "temperature_2m_max")
             min_temps == GetOrEmpty(daily, "temperature_2m_min")
             precipitation == GetOrEmpty(daily, "precipitation_sum")
             weather_codes == GetOrEmpty(daily, "weathercode")
         IN  IF \E list \in {max_temps, min_temps, precipitation, weather_codes} :
                   Len(list) < Len(dates)
             THEN Raised(IndexMessage)
             ELSE LET forecast_days ==
                          [i \in 1..Len(dates) |->
                              [date |-> dates[i],
                               temperature_max_f |-> max_temps[i],
                               temperature_min_f |-> min_temps[i],
                               precipitation_in |-> precipitation[i],
                               weather_code |-> weather_codes[i],
                               weather_description |->
                                   _interpret_weather_code(weather_codes[i])]]
                  IN  Returned([location |-> LocationText(c),
                                latitude |-> c.latitude,
                                longitude |-> c.longitude,
                                forecast |-> forecast_days,
                                days_count |-> Len(forecast_days)])

(* weather_forecast from the answer on: lines 111-148 *)
weather_forecast(c, outcome) ==
    IF outcome.kind = "exception" THEN Caught(outcome.message)
    ELSE IF outcome.status = 200
    THEN LET parsed == ForecastParse(c, outcome.body)
         IN  IF parsed.raised THEN Caught(parsed.message) ELSE parsed.value
    ELSE StatusError(outcome.status)

(* location_weather_info: the get_weather and weather_forecast calls it makes *)
CurrentCallOf(c) ==
    [op |-> "get_weather", latitude |-> c.latitude, longitude |-> c.longitude,
     location_name |-> c.location_name]

ForecastCallOf(c) ==
    [op |-> "weather_forecast", latitude |-> c.latitude, longitude |-> c.longitude,
     days |-> 5, location_name |-> c.location_name]

(* lines 170-180: result once get_weather has returned *)
InfoWithCurrent(c, current_weather) ==
    [location |-> [name |-> c.location_name, latitude |-> c.latitude,
                   longitude |-> c.longitude],
     current_weather |-> current_weather]

(* a slip: the forecast key only set when the fetch brought a forecast *)
InfoWithForecastIfPresent(info, forecast) ==
    IF "forecast" \in DOMAIN forecast THEN Merge(info, [forecast |-> forecast.forecast])
    ELSE info

(* a slip: the error of the forecast fetch passed on under a key of its own *)
InfoWithForecastError(info, forecast) ==
    IF "error" \in DOMAIN forecast
    THEN Merge(info, [forecast |-> <<>>, forecast_error |-> forecast.error])
    ELSE Merge(info, [forecast |-> GetOrEmpty(forecast, "forecast")])

(* lines 183-184: result['forecast'] = forecast.get('forecast', []) *)
InfoWithForecast(info, forecast) ==
    Merge(info, [forecast |-> GetOrEmpty(forecast, "forecast")])

(* ---------------- the inputs of the calls ---------------- *)

Deg(n) == n * Scale

Coordinates ==
    { <<Deg(0), Deg(0)>>, <<Deg(20), Deg(0)>>, <<Deg(-20), Deg(0)>>,
      <<Deg(20), Deg(30)>>, <<Deg(0), Deg(30)>> }

Modes == {"driving", "walking", "cycling", "flying", "Driving"}

(* candidate records: complete ones (two of them equally far from <<0, 0>>), *)
(* one at latitude 0 and longitude 0, one without the latitude key, one whose  *)
(* longitude is None, one that already carries computed keys                   *)
Candidates ==
    { [name |-> "A", latitude |-> Deg(20), longitude |-> Deg(0)],
      [name |-> "B", latitude |-> Deg(-20), longitude |-> Deg(0)],
      [name |-> "C", latitude |-> Deg(20), longitude |-> Deg(30)],
      [name |-> "D", latitude |-> Deg(0), longitude |-> Deg(0)],
      [name |-> "E", longitude |-> Deg(30)],
      [name |-> "F", latitude |-> Deg(0), longitude |-> None],
      [name |-> "G", latitude |-> Deg(0), longitude |-> Deg(30),
       distance_km |-> Lit(77, 0), direction |-> "Up"] }

Centers == { <<Deg(0), Deg(0)>>, <<Deg(20), Deg(30)>> }

(* radii: 0, two next to the distance of A and B from <<0, 0>> (2306.302),  *)
(* the distance of C from <<0, 0>> (4000.988), and a round one               *)
Radii == { 0, Lit(2306, 300), Lit(2306, 302), Lit(4000, 988), Lit(5000, 0) }

LocationLists == UNION { [1..n -> Candidates] : n \in 0..MaxLocs }

(* bearings in [0, 360): every multiple of 2.5 and the neighbours of two sector edges *)
Bearings ==
    { 2500 * k : k \in 0..143 } \cup { 22499, 22501, 337499, 337501, 359999 }

NoRoute == [start |-> <<0, 0>>, end |-> <<0, 0>>, mode |-> ""]

(* the points of distance_matrix calls and the lists made of them *)
MatrixPoints == { <<Deg(0), Deg(0)>>, <<Deg(20), Deg(0)>>, <<Deg(20), Deg(30)>> }

PointLists == UNION { [1..n -> MatrixPoints] : n \in 0..MaxPoints }

NoMatrix == [origins |-> <<>>, destinations |-> <<>>]

(* the points of direct _calculate_distance calls: those of the routes, two *)
(* antipodal ones and one half a turn away along the equator                *)
DistancePoints ==
    Coordinates \cup { <<Deg(10), Deg(0)>>, <<Deg(-10), Deg(180)>>, <<Deg(0), Deg(180)>> }

(* the calls of the GeocodingServer operations *)
GeocodingCalls ==
    { [op |-> "geocode", address |-> "Paris", limit |-> 5],
      [op |-> "reverse_geocode", latitude |-> Deg(20), longitude |-> Deg(30)],
      [op |-> "search_places", query |-> "cafe", near_lat |-> None, near_lon |-> None,
       limit |-> 10],
      [op |-> "search_places", query |-> "cafe", near_lat |-> Deg(10), near_lon |-> Deg(0),
       limit |-> 10],
      [op |-> "search_places", query |-> "cafe", near_lat |-> Deg(10), near_lon |-> None,
       limit |-> 10] }

(* the calls of the WeatherServer operations *)
WeatherCalls ==
    { [op |-> "get_weather", latitude |-> Deg(20), longitude |-> Deg(30),
       location_name |-> n] : n \in {"Home", ""} }
    \cup { [op |-> "weather_forecast", latitude |-> Deg(20), longitude |-> Deg(30),
            days |-> d, location_name |-> "Home"] : d \in {0, 1, 3, 16, 17, 20} }
    \cup { [op |-> "location_weather_info", latitude |-> Deg(20), longitude |-> Deg(30),
            location_name |-> "Home", include_forecast |-> f] : f \in BOOLEAN }

(* items of the upstream search: two places, one without lat, one at the *)
(* antipode of <<10, 0>>                                                  *)
PlaceA == [display_name |-> "A", lat |-> Deg(20), lon |-> Deg(0), type |-> "cafe",
           class |-> "amenity"]

PlaceB == [display_name |-> "B", lat |-> Deg(20), lon |-> Deg(30), type |-> "cafe",
           class |-> "amenity"]

PlaceNoLat == [display_name |-> "N", lon |-> Deg(0)]

PlaceAntipode == [display_name |-> "Z", lat |-> Deg(-10), lon |-> Deg(180)]

SearchBodies ==
    { NotJSON, JSONObject([error |-> "Bad request"]), JSONList(<<>>), JSONList(<<PlaceA>>),
      JSONList(<<PlaceB, PlaceA>>), JSONList(<<PlaceA, PlaceNoLat>>),
      JSONList(<<PlaceAntipode>>) }

ReverseBodies ==
    { NotJSON, JSONList(<<>>), JSONObject([error |-> "Unable to geocode"]),
      JSONObject([display_name |-> "Rue X, Paris", type |-> "house"]) }

CurrentBodies ==
    { NotJSON, JSONList(<<>>), JSONObject([latitude |-> Deg(20)]),
      JSONObject([current_weather |->
                     [temperature |-> Lit(70, 500), windspeed |-> Lit(5, 0),
                      winddirection |-> 180, weathercode |-> 3, is_day |-> 1,
                      time |-> "2024-01-01T12:00"]]) }

ForecastBodies ==
    { NotJSON, JSONList(<<>>), JSONObject([latitude |-> Deg(20)]),
      JSONObject([daily |->
                     [time |-> <<"2024-01-01", "2024-01-02">>,
                      temperature_2m_max |-> <<Lit(70, 0), Lit(71, 0)>>,
                      temperature_2m_min |-> <<Lit(50, 0), Lit(51, 0)>>,
                      precipitation_sum |-> <<0, Lit(0, 100)>>,
                      weathercode |-> <<3, 100>>]]),
      JSONObject([daily |->
                     [time |-> <<"2024-01-01", "2024-01-02">>,
                      temperature_2m_max |-> <<Lit(70, 0)>>,
                      temperature_2m_min |-> <<Lit(50, 0), Lit(51, 0)>>,
                      precipitation_sum |-> <<0, Lit(0, 100)>>,
                      weathercode |-> <<3, 100>>]]) }

(* the bodies the service a request goes to can answer with *)
Bodies(req) ==
    IF req.server = "geocoding"
    THEN (IF req.url = base_url \o "/reverse" THEN ReverseBodies ELSE SearchBodies)
    ELSE (IF "current_weather" \in DOMAIN req.params THEN CurrentBodies ELSE ForecastBodies)

(* everything that can come back for a request *)
Outcomes(req) ==
    { ClientError } \cup { Response(status, NotJSON) : status \in {404, 500} }
    \cup { Response(200, body) : body \in Bodies(req) }

(* the coroutines that call one GeocodingServer *)
Tasks == 1..MaxTasks

IdleTask == [pc |-> "idle", call |-> NoCall, wake |-> None, result |-> <<>>]

(* ---------------- the state machine ---------------- *)

Init ==
    /\ earth_radius_km = 6371
    /\ pc = "idle"
    /\ op = "none"
    /\ center = <<0, 0>>
    /\ radius_km = 0
    /\ locations = <<>>
    /\ given = <<>>
    /\ route_args = NoRoute
    /\ matrix_args = NoMatrix
    /\ bearing_arg = 0
    /\ result = <<>>
    /\ now = StartTime
    /\ last_request_time = 0
    /\ call = NoCall
    /\ entered = None
    /\ wake = None
    /\ request = NoRequest
    /\ sent = <<>>
    /\ last_issue = [geocoding |-> None, weather |-> None]
    /\ chat_pc = "idle"
    /\ max_iterations = 0
    /\ iteration = 0
    /\ messages = <<>>
    /\ tool_calls = <<>>
    /\ next_call = 0
    /\ completions = <<>>
    /\ chat_result = ""
    /\ tasks = [t \in Tasks |-> IdleTask]
    /\ issued = <<>>

(* a slip: the computed fields written into the caller's records themselves *)
FindNearbyInPlace ==
    /\ pc = "idle"
    /\ \E c \in Centers, l \in LocationLists, r \in Radii :
          /\ center' = c
          /\ given' = l
          /\ radius_km' = r
          /\ locations' = [i \in DOMAIN l |->
                              LET one == NearbyAfter(<<>>, l[i], c[1], c[2], r)
                              IN  IF one = <<>> THEN l[i] ELSE one[1]]
          /\ result' = find_nearby(c[1], c[2], l, r)
    /\ op' = "find_nearby"
    /\ pc' = "done"
    /\ UNCHANGED <<httpVars, agentVars>>
    /\ UNCHANGED <<earth_radius_km, route_args, matrix_args, bearing_arg>>

(* a call of find_nearby: lines 207-233, no suspension point inside; the *)
(* caller's list is the same object before and after                      *)
FindNearby ==
    /\ pc = "idle"
    /\ \E c \in Centers, l \in LocationLists, r \in Radii :
          /\ center' = c
          /\ given' = l
          /\ radius_km' = r
          /\ locations' = l
          /\ result' = find_nearby(c[1], c[2], l, r)
    /\ op' = "find_nearby"
    /\ pc' = "done"
    /\ UNCHANGED <<httpVars, agentVars>>
    /\ UNCHANGED <<earth_radius_km, route_args, matrix_args, bearing_arg>>

(* a slip: the call leaves the radius of the Earth in miles behind *)
CalculateRouteInMiles ==
    /\ pc = "idle"
    /\ \E s \in Coordinates, e \in Coordinates, m \in Modes :
          /\ route_args' = [start |-> s, end |-> e, mode |-> m]
          /\ result' = calculate_route(s[1], s[2], e[1], e[2], m)
    /\ earth_radius_km' = 3959
    /\ op' = "calculate_route"
    /\ pc' = "done"
    /\ UNCHANGED <<httpVars, agentVars>>
    /\ UNCHANGED <<center, radius_km, locations, given, matrix_args, bearing_arg>>

(* a call of calculate_route: lines 90-145, no suspension point inside *)
CalculateRoute ==
    /\ pc = "idle"
    /\ \E s \in Coordinates, e \in Coordinates, m \in Modes :
          /\ route_args' = [start |-> s, end |-> e, mode |-> m]
          /\ result' = calculate_route(s[1], s[2], e[1], e[2], m)
    /\ op' = "calculate_route"
    /\ pc' = "done"
    /\ UNCHANGED <<httpVars, agentVars>>
    /\ UNCHANGED <<earth_radius_km, center, radius_km, locations, given, matrix_args,
                   bearing_arg>>

(* a call of distance_matrix: lines 147-186, no suspension point inside *)
DistanceMatrix ==
    /\ pc = "idle"
    /\ \E o \in PointLists, d \in PointLists :
          /\ matrix_args' = [origins |-> o, destinations |-> d]
          /\ result' = distance_matrix(o, d)
    /\ op' = "distance_matrix"
    /\ pc' = "done"
    /\ UNCHANGED <<httpVars, agentVars>>
    /\ UNCHANGED <<earth_radius_km, center, radius_km, locations, given, route_args,
                   bearing_arg>>

(* a call of RoutingServer._calculate_distance: lines 25-42 *)
CalculateDistance ==
    /\ pc = "idle"
    /\ \E a \in DistancePoints, b \in DistancePoints :
          /\ route_args' = [start |-> a, end |-> b, mode |-> ""]
          /\ result' = _calculate_distance(a[1], a[2], b[1], b[2])
    /\ op' = "RoutingServer._calculate_distance"
    /\ pc' = "done"
    /\ UNCHANGED <<httpVars, agentVars>>
    /\ UNCHANGED <<earth_radius_km, center, radius_km, locations, given, matrix_args,
                   bearing_arg>>

(* a call of GeocodingServer._calculate_distance: geocoding_server.py lines 218-237 *)
GeocodingCalculateDistance ==
    /\ pc = "idle"
    /\ \E a \in DistancePoints, b \in DistancePoints :
          /\ route_args' = [start |-> a, end |-> b, mode |-> ""]
          /\ result' = Geocoding_calculate_distance(a[1], a[2], b[1], b[2])
    /\ op' = "GeocodingServer._calculate_distance"
    /\ pc' = "done"
    /\ UNCHANGED <<httpVars, agentVars>>
    /\ UNCHANGED <<earth_radius_km, center, radius_km, locations, given, matrix_args,
                   bearing_arg>>

(* a call of _bearing_to_direction: lines 65-67 *)
BearingToDirection ==
    /\ pc = "idle"
    /\ \E b \in Bearings :
          /\ bearing_arg' = b
          /\ result' = _bearing_to_direction(b)
    /\ op' = "_bearing_to_direction"
    /\ pc' = "done"
    /\ UNCHANGED <<httpVars, agentVars>>
    /\ UNCHANGED <<earth_radius_km, center, radius_km, locations, given, route_args,
                   matrix_args>>

(* the caller drops the result; the servers keep their attributes for the next call *)
Return ==
    /\ pc = "done"
    /\ pc' = "idle"
    /\ op' = "none"
    /\ center' = <<0, 0>>
    /\ radius_km' = 0
    /\ locations' = <<>>
    /\ given' = <<>>
    /\ route_args' = NoRoute
    /\ matrix_args' = NoMatrix
    /\ bearing_arg' = 0
    /\ result' = <<>>
    /\ call' = NoCall
    /\ entered' = None
    /\ wake' = None
    /\ request' = NoRequest
    /\ sent' = <<>>
    /\ UNCHANGED <<earth_radius_km, now, last_request_time, last_issue>>
    /\ UNCHANGED agentVars

Next ==
    \/ FindNearby
    \/ CalculateRoute
    \/ DistanceMatrix
    \/ CalculateDistance
    \/ GeocodingCalculateDistance
    \/ BearingToDirection
    \/ Return

Spec == Init /\ [][Next]_vars

(* ---------------- the wrapper calls, from one suspension point to the next ---------------- *)

GeocodingRequestOf(c) ==
    IF c.op = "geocode" THEN GeocodeRequest(c)
    ELSE IF c.op = "reverse_geocode" THEN ReverseRequest(c)
    ELSE SearchRequest(c)

(* the request a WeatherServer call issues first *)
WeatherRequestOf(c) ==
    IF c.op = "weather_forecast" THEN ForecastRequest(c)
    ELSE IF c.op = "get_weather" THEN CurrentRequest(c)
    ELSE CurrentRequest(CurrentCallOf(c))

(* a slip: no sleep at all *)
SleepNever(time_since_last_request) == time_since_last_request < 0

(* _rate_limit, line 33: time_since_last_request < self.min_request_interval *)
SleepNeeded(time_since_last_request) == time_since_last_request < min_request_interval

(* a slip: the sleep lasts the time already gone by *)
SleepForElapsed(time_since_last_request) == time_since_last_request

(* _rate_limit, line 34: the argument of asyncio.sleep *)
SleepFor(time_since_last_request) == min_request_interval - time_since_last_request

(* the note of a request at the moment it is issued *)
SendEntry(req, since, slept) ==
    [request |-> req, at |-> now, entered |-> since, slept |-> slept,
     prev_recorded |-> IF req.server = "geocoding" THEN last_request_time ELSE None,
     prev_issue |-> last_issue[req.server], reply |-> Pending]

(* the requests sent so far, the last one answered *)
Answered(outcome) == [sent EXCEPT ![Len(sent)].reply = outcome]

(* geocode, reverse_geocode, search_places up to the first suspension point: *)
(* _rate_limit either goes to sleep (line 34) or falls through to line 35,   *)
(* and then the request is issued (lines 62-63, 111-112, 179-180)            *)
GeocodingCall ==
    /\ pc = "idle"
    /\ \E c \in GeocodingCalls :
          LET current_time == now
              time_since_last_request == current_time - last_request_time
          IN  /\ call' = c
              /\ op' = c.op
              /\ entered' = now
              /\ IF SleepNeeded(time_since_last_request)
                 THEN /\ pc' = "sleeping"
                      /\ wake' = now + SleepFor(time_since_last_request)
                      /\ UNCHANGED <<last_request_time, request, sent, last_issue>>
                 ELSE /\ pc' = "requesting"
                      /\ wake' = None
                      /\ last_request_time' = now
                      /\ request' = GeocodingRequestOf(c)
                      /\ sent' = << SendEntry(GeocodingRequestOf(c), now, FALSE) >>
                      /\ last_issue' = [last_issue EXCEPT !.geocoding = now]
    /\ UNCHANGED <<now, result>>
    /\ UNCHANGED <<routingVars, agentVars>>

(* asyncio.sleep is over, not before the time asked for: line 35, then the request *)
RateLimitWake ==
    /\ pc = "sleeping"
    /\ now >= wake
    /\ pc' = "requesting"
    /\ wake' = None
    /\ last_request_time' = now
    /\ request' = GeocodingRequestOf(call)
    /\ sent' = << SendEntry(GeocodingRequestOf(call), entered, TRUE) >>
    /\ last_issue' = [last_issue EXCEPT !.geocoding = now]
    /\ UNCHANGED <<now, op, call, entered, result>>
    /\ UNCHANGED <<routingVars, agentVars>>

(* get_weather, weather_forecast, location_weather_info up to the first request *)
WeatherCall ==
    /\ pc = "idle"
    /\ \E c \in WeatherCalls :
          /\ call' = c
          /\ op' = c.op
          /\ request' = WeatherRequestOf(c)
          /\ sent' = << SendEntry(WeatherRequestOf(c), now, FALSE) >>
    /\ entered' = now
    /\ pc' = "requesting"
    /\ last_issue' = [last_issue EXCEPT !.weather = now]
    /\ UNCHANGED <<now, last_request_time, wake, result>>
    /\ UNCHANGED <<routingVars, agentVars>>

(* what a call of one of the five simple operations returns for an outcome *)
ResultOf(c, outcome) ==
    IF c.op = "geocode" THEN geocode(c, outcome)
    ELSE IF c.op = "reverse_geocode" THEN reverse_geocode(c, outcome)
    ELSE IF c.op = "search_places" THEN search_places(c, outcome)
    ELSE IF c.op = "get_weather" THEN get_weather(c, outcome)
    ELSE weather_forecast(c, outcome)

(* a slip: a request that failed is sent once more *)
RespondRetrying ==
    /\ pc = "requesting"
    /\ \E outcome \in Outcomes(request) :
          IF (outcome.kind = "exception" \/ outcome.status # 200) /\ Len(sent) = 1
          THEN /\ sent' = Append(Answered(outcome), SendEntry(request, now, FALSE))
               /\ last_issue' = [last_issue EXCEPT ![request.server] = now]
               /\ UNCHANGED <<pc, request, result>>
          ELSE /\ result' = IF call.op = "location_weather_info"
                            THEN InfoWithCurrent(call, get_weather(CurrentCallOf(call), outcome))
                            ELSE ResultOf(call, outcome)
               /\ sent' = Answered(outcome)
               /\ pc' = "done"
               /\ request' = NoRequest
               /\ UNCHANGED last_issue
    /\ UNCHANGED <<now, last_request_time, op, call, entered, wake>>
    /\ UNCHANGED <<routingVars, agentVars>>

(* the answer to the request in flight, or its failure, arrives and the call  *)
(* runs on: to its return, or in location_weather_info (lines 170-186) from   *)
(* the answer to get_weather's request to the request of weather_forecast     *)
Respond ==
    /\ pc = "requesting"
    /\ \E outcome \in Outcomes(request) :
          IF call.op = "location_weather_info" /\ Len(sent) = 1
          THEN /\ result' = InfoWithCurrent(call, get_weather(CurrentCallOf(call), outcome))
               /\ IF call.include_forecast
                  THEN /\ pc' = "requesting"
                       /\ request' = ForecastRequest(ForecastCallOf(call))
                       /\ sent' = Append(Answered(outcome),
                                         SendEntry(ForecastRequest(ForecastCallOf(call)),
                                                   now, FALSE))
                       /\ last_issue' = [last_issue EXCEPT !.weather = now]
                  ELSE /\ pc' = "done"
                       /\ request' = NoRequest
                       /\ sent' = Answered(outcome)
                       /\ UNCHANGED last_issue
          ELSE /\ result' = IF call.op = "location_weather_info"
                            THEN InfoWithForecast(result,
                                     weather_forecast(ForecastCallOf(call), outcome))
                            ELSE ResultOf(call, outcome)
               /\ pc' = "done"
               /\ request' = NoRequest
               /\ sent' = Answered(outcome)
               /\ UNCHANGED last_issue
    /\ UNCHANGED <<now, last_request_time, op, call, entered, wake>>
    /\ UNCHANGED <<routingVars, agentVars>>

(* time goes by *)
Tick ==
    /\ now < StartTime + MaxTicks * TickLength
    /\ now' = now + TickLength
    /\ UNCHANGED <<pc, op, result, last_request_time, call, entered, wake, request, sent,
                   last_issue>>
    /\ UNCHANGED <<routingVars, agentVars>>

NextHttp ==
    \/ GeocodingCall
    \/ RateLimitWake
    \/ WeatherCall
    \/ Respond
    \/ Tick
    \/ Return

SpecHttp == Init /\ [][NextHttp]_vars

(* ---------------- coroutines sharing one GeocodingServer ---------------- *)

(* the note of a request a coroutine issues now *)
IssueEntry(t) == [task |-> t, at |-> now]

(* coroutine t calls geocode, reverse_geocode or search_places and runs up to *)
(* its first suspension point: _rate_limit reads the clock and               *)
(* self.last_request_time (lines 31-32) and either goes to sleep (line 34),   *)
(* or records the time (line 35) and issues the request                       *)
TaskCall(t) ==
    /\ tasks[t].pc = "idle"
    /\ \E c \in GeocodingCalls :
          LET current_time == now
              time_since_last_request == current_time - last_request_time
          IN  IF SleepNeeded(time_since_last_request)
              THEN /\ tasks' = [tasks EXCEPT ![t] =
                                   [pc |-> "sleeping", call |-> c,
                                    wake |-> now + SleepFor(time_since_last_request),
                                    result |-> <<>>]]
                   /\ UNCHANGED <<last_request_time, issued>>
              ELSE /\ tasks' = [tasks EXCEPT ![t] =
                                   [pc |-> "requesting", call |-> c, wake |-> None,
                                    result |-> <<>>]]
                   /\ last_request_time' = now
                   /\ issued' = Append(issued, IssueEntry(t))
    /\ UNCHANGED <<pc, op, result, now, call, entered, wake, request, sent, last_issue>>
    /\ UNCHANGED <<routingVars, chatVars>>

(* asyncio.sleep is over for coroutine t: line 35 records the time, whatever *)
(* the other coroutines recorded meanwhile, and the request is issued         *)
TaskWake(t) ==
    /\ tasks[t].pc = "sleeping"
    /\ now >= tasks[t].wake
    /\ tasks' = [tasks EXCEPT ![t].pc = "requesting", ![t].wake = None]
    /\ last_request_time' = now
    /\ issued' = Append(issued, IssueEntry(t))
    /\ UNCHANGED <<pc, op, result, now, call, entered, wake, request, sent, last_issue>>
    /\ UNCHANGED <<routingVars, chatVars>>

(* the request of coroutine t is answered and its call returns *)
TaskRespond(t) ==
    /\ tasks[t].pc = "requesting"
    /\ \E outcome \in Outcomes(GeocodingRequestOf(tasks[t].call)) :
          tasks' = [tasks EXCEPT ![t].pc = "done",
                                 ![t].result = ResultOf(tasks[t].call, outcome)]
    /\ UNCHANGED <<pc, op, result, issued>>
    /\ UNCHANGED <<httpVars, routingVars, chatVars>>

(* coroutine t is ready for its next call *)
TaskReturn(t) ==
    /\ tasks[t].pc = "done"
    /\ tasks' = [tasks EXCEPT ![t] = IdleTask]
    /\ UNCHANGED <<pc, op, result, issued>>
    /\ UNCHANGED <<httpVars, routingVars, chatVars>>

NextConcurrent ==
    \/ \E t \in Tasks : TaskCall(t)
    \/ \E t \in Tasks : TaskWake(t)
    \/ \E t \in Tasks : TaskRespond(t)
    \/ \E t \in Tasks : TaskReturn(t)
    \/ Tick

SpecConcurrent == Init /\ [][NextConcurrent]_vars

(* ---------------- MapAgentDemo: src/agent_demo.py ---------------- *)

(* the function names of the three get_tool_definitions, in the order listed *)
GeocodingToolNames == <<"geocode", "reverse_geocode", "search_places">>

RoutingToolNames == <<"calculate_route", "distance_matrix", "find_nearby">>

WeatherToolNames == <<"get_weather", "weather_forecast", "location_weather_info">>

(* the servers of lines 27-29 and what each one advertises *)
ToolNamesOf ==
    [geocoding_server |-> GeocodingToolNames,
     routing_server |-> RoutingToolNames,
     weather_server |-> WeatherToolNames]

(* self.tools, lines 32-35: the names of the definitions collected *)
tools == GeocodingToolNames \o RoutingToolNames \o WeatherToolNames

NoOperation == [server |-> "none", operation |-> "none"]

(* a slip: the branch of location_weather_info left out *)
DispatchWithoutInfo(function_name) ==
    IF function_name = "geocode"
    THEN [server |-> "geocoding_server", operation |-> "geocode"]
    ELSE IF function_name = "reverse_geocode"
    THEN [server |-> "geocoding_server", operation |-> "reverse_geocode"]
    ELSE IF function_name = "search_places"
    THEN [server |-> "geocoding_server", operation |-> "search_places"]
    ELSE IF function_name = "calculate_route"
    THEN [server |-> "routing_server", operation |-> "calculate_route"]
    ELSE IF function_name = "distance_matrix"
    THEN [server |-> "routing_server", operation |-> "distance_matrix"]
    ELSE IF function_name = "find_nearby"
    THEN [server |-> "routing_server", operation |-> "find_nearby"]
    ELSE IF function_name = "get_weather"
    THEN [server |-> "weather_server", operation |-> "get_weather"]
    ELSE IF function_name = "weather_forecast"
    THEN [server |-> "weather_server", operation |-> "weather_forecast"]
    ELSE NoOperation

(* the if/elif chain of execute_function, lines 44-73: the server and the *)
(* operation a function name is routed to                                  *)
Dispatch(function_name) ==
    IF function_name = "geocode"
    THEN [server |-> "geocoding_server", operation |-> "geocode"]
    ELSE IF function_name = "reverse_geocode"
    THEN [server |-> "geocoding_server", operation |-> "reverse_geocode"]
    ELSE IF function_name = "search_places"
    THEN [server |-> "geocoding_server", operation |-> "search_places"]
    ELSE IF function_name = "calculate_route"
    THEN [server |-> "routing_server", operation |-> "calculate_route"]
    ELSE IF function_name = "distance_matrix"
    THEN [server |-> "routing_server", operation |-> "distance_matrix"]
    ELSE IF function_name = "find_nearby"
    THEN [server |-> "routing_server", operation |-> "find_nearby"]
    ELSE IF function_name = "get_weather"
    THEN [server |-> "weather_server", operation |-> "get_weather"]
    ELSE IF function_name = "weather_forecast"
    THEN [server |-> "weather_server", operation |-> "weather_forecast"]
    ELSE IF function_name = "location_weather_info"
    THEN [server |-> "weather_server", operation |-> "location_weather_info"]
    ELSE NoOperation

(* {"error": f"Unknown function: {function_name}"} *)
UnknownFunction(function_name) == [error |-> "Unknown function: " \o function_name]

NoDefaults == [k \in {} |-> None]

(* the parameters of the nine operations: those without a default, and the *)
(* defaults of the others                                                   *)
Signature(operation) ==
    CASE operation = "geocode" ->
            [required |-> {"address"}, defaults |-> [limit |-> 5]]
      [] operation = "reverse_geocode" ->
            [required |-> {"latitude", "longitude"}, defaults |-> NoDefaults]
      [] operation = "search_places" ->
            [required |-> {"query"},
             defaults |-> [near_lat |-> None, near_lon |-> None, limit |-> 10]]
      [] operation = "calculate_route" ->
            [required |-> {"start_lat", "start_lon", "end_lat", "end_lon"},
             defaults |-> [mode |-> "driving"]]
      [] operation = "distance_matrix" ->
            [required |-> {"origins", "destinations"}, defaults |-> NoDefaults]
      [] operation = "find_nearby" ->
            [required |-> {"center_lat", "center_lon", "locations"},
             defaults |-> [radius_km |-> Lit(5, 0)]]
      [] operation = "get_weather" ->
            [required |-> {"latitude", "longitude"}, defaults |-> [location_name |-> ""]]
      [] operation = "weather_forecast" ->
            [required |-> {"latitude", "longitude"},
             defaults |-> [days |-> 7, location_name |-> ""]]
      [] operation = "location_weather_info" ->
            [required |-> {"latitude", "longitude", "location_name"},
             defaults |-> [include_forecast |-> TRUE]]

(* the call with ** arguments finds every parameter without a default and no *)
(* keyword it does not know                                               *)
Binds(operation, arguments) ==
    /\ Signature(operation).required \subseteq DOMAIN arguments
    /\ DOMAIN arguments \subseteq
           Signature(operation).required \cup DOMAIN Signature(operation).defaults

(* the parameters of the call with ** arguments *)
Bound(operation, arguments) == Merge(Signature(operation).defaults, arguments)

(* the TypeError of a call whose keywords do not fit *)
BindingMessage(operation) == operation \o "() got an unexpected or misses a required argument"

(* the call record of an operation of GeocodingServer or WeatherServer *)
CallOf(operation, a) == Merge([op |-> operation], a)

(* what the upstream services may answer to the requests of one call of an *)
(* operation, in the order of the requests; nothing for RoutingServer       *)
UpstreamOf(server, operation, a) ==
    LET c == CallOf(operation, a)
    IN  IF server = "geocoding_server"
        THEN { <<outcome>> : outcome \in Outcomes(GeocodingRequestOf(c)) }
        ELSE IF server = "routing_server" THEN { <<>> }
        ELSE IF operation # "location_weather_info"
        THEN { <<outcome>> : outcome \in Outcomes(WeatherRequestOf(c)) }
        ELSE IF c.include_forecast
        THEN Outcomes(CurrentRequest(CurrentCallOf(c)))
                 \X Outcomes(ForecastRequest(ForecastCallOf(c)))
        ELSE { <<outcome>> : outcome \in Outcomes(CurrentRequest(CurrentCallOf(c))) }

(* how a call of a GeocodingServer operation ends *)
GeocodingOutcome(operation, a, upstream) ==
    Returned(ResultOf(CallOf(operation, a), upstream[1]))

(* how a call of a WeatherServer operation ends *)
WeatherOutcome(operation, a, upstream) ==
    LET c == CallOf(operation, a)
    IN  IF operation # "location_weather_info"
        THEN Returned(ResultOf(c, upstream[1]))
        ELSE LET info == InfoWithCurrent(c, get_weather(CurrentCallOf(c), upstream[1]))
             IN  IF c.include_forecast
                 THEN Returned(InfoWithForecast(info,
                                  weather_forecast(ForecastCallOf(c), upstream[2])))
                 ELSE Returned(info)

(* how a call of a RoutingServer operation ends; lines 56-59 make tuples of *)
(* the coordinate lists of distance_matrix                                   *)
RoutingOutcome(operation, a) ==
    IF operation = "calculate_route"
    THEN IF _calculate_distance(a.start_lat, a.start_lon, a.end_lat, a.end_lon) = ValueError
         THEN Raised(MathDomainMessage)
         ELSE Returned(calculate_route(a.start_lat, a.start_lon, a.end_lat, a.end_lon,
                                       a.mode))
    ELSE IF operation = "distance_matrix"
    THEN LET origins == [i \in 1..Len(a.origins) |-> <<a.origins[i][1], a.origins[i][2]>>]
             destinations == [j \in 1..Len(a.destinations) |->
                                 <<a.destinations[j][1], a.destinations[j][2]>>]
         IN  IF \E i \in 1..Len(origins) : \E j \in 1..Len(destinations) :
                    _calculate_distance(origins[i][1], origins[i][2],
                                        destinations[j][1], destinations[j][2]) = ValueError
             THEN Raised(MathDomainMessage)
             ELSE Returned(distance_matrix(origins, destinations))
    ELSE IF \E i \in 1..Len(a.locations) :
               /\ HasCoordinates(Get(a.locations[i], "latitude"),
                                 Get(a.locations[i], "longitude"))
               /\ _calculate_distance(a.center_lat, a.center_lon,
                                      Get(a.locations[i], "latitude"),
                                      Get(a.locations[i], "longitude")) = ValueError
         THEN Raised(MathDomainMessage)
         ELSE Returned(find_nearby(a.center_lat, a.center_lon, a.locations, a.radius_km))

(* what the upstream services may answer during execute_function *)
Upstream(function_name, arguments) ==
    LET route == Dispatch(function_name)
    IN  IF route = NoOperation \/ ~Binds(route.operation, arguments) THEN { <<>> }
        ELSE UpstreamOf(route.server, route.operation, Bound(route.operation, arguments))

(* execute_function, lines 39-73, with what the upstream services answered *)
execute_function(function_name, arguments, upstream) ==
    LET route == Dispatch(function_name)
    IN  IF route = NoOperation THEN Returned(UnknownFunction(function_name))
        ELSE IF ~Binds(route.operation, arguments)
        THEN Raised(BindingMessage(route.operation))
        ELSE IF route.server = "geocoding_server"
        THEN GeocodingOutcome(route.operation, Bound(route.operation, arguments), upstream)
        ELSE IF route.server = "routing_server"
        THEN RoutingOutcome(route.operation, Bound(route.operation, arguments))
        ELSE WeatherOutcome(route.operation, Bound(route.operation, arguments), upstream)

(* json.loads(tool_call.function.arguments), line 129 *)
json_loads(text) ==
    IF text.shape = "invalid"
    THEN Raised("Expecting property name enclosed in double quotes")
    ELSE Returned(text.fields)

(* json.dumps(result), line 140: the text, told by the value it encodes *)
json_dumps(value) == [json |-> value]

(* the return of line 143 *)
MaxIterationsText == "Maximum iterations reached. Please try a simpler query."

(* lines 80-91, its content shortened *)
SystemMessage ==
    [role |-> "system",
     content |-> "You are a helpful assistant with access to map and location services."]

UserMessage(user_message) == [role |-> "user", content |-> user_message]

(* lines 110-124 *)
AssistantMessage(message) ==
    [role |-> "assistant",
     content |-> message.content,
     tool_calls |-> [i \in 1..Len(message.tool_calls) |->
                       [id |-> message.tool_calls[i].id,
                        type |-> "function",
                        function |->
                           [name |-> message.tool_calls[i].function.name,
                            arguments |-> message.tool_calls[i].function.arguments]]]]

(* a slip: the name of the function where the id of the call belongs *)
ToolMessageByName(tool_call, tool_result) ==
    [role |-> "tool", tool_call_id |-> tool_call.function.name,
     content |-> json_dumps(tool_result)]

(* lines 137-141 *)
ToolMessage(tool_call, tool_result) ==
    [role |-> "tool", tool_call_id |-> tool_call.id, content |-> json_dumps(tool_result)]

(* a slip: one iteration more than max_iterations *)
LoopGoesOnOnceMore(done, limit) == done <= limit

(* for iteration in range(max_iterations), line 95: another iteration follows *)
(* the ones done                                                             *)
LoopGoesOn(done, limit) == done < limit

(* ---------------- what the chat-completion service answers ---------------- *)

(* a tool call of a response: tc.id, tc.function.name, tc.function.arguments *)
ToolCall(id, name, arguments) ==
    [id |-> id, function |-> [name |-> name, arguments |-> arguments]]

RouteArguments ==
    JSONObject([start_lat |-> Deg(0), start_lon |-> Deg(0), end_lat |-> Deg(20),
                end_lon |-> Deg(30), mode |-> "walking"])

(* the lists of tool calls: one call, two calls with an unknown name second *)
(* or first, arguments that are no JSON, arguments that miss a parameter    *)
ToolCallLists ==
    { << ToolCall("call_1", "geocode", JSONObject([address |-> "Paris"])) >>,
      << ToolCall("call_1", "calculate_route", RouteArguments),
         ToolCall("call_2", "get_directions", JSONObject([to |-> "Paris"])) >>,
      << ToolCall("call_1", "get_directions", JSONObject([to |-> "Paris"])),
         ToolCall("call_2", "reverse_geocode",
                  JSONObject([latitude |-> Deg(20), longitude |-> Deg(30)])) >>,
      << ToolCall("call_1", "calculate_route", NotJSON) >>,
      << ToolCall("call_1", "calculate_route", RouteArguments),
         ToolCall("call_2", "get_weather", JSONObject([latitude |-> Deg(20)])) >> }

(* message.content of a response that only calls tools *)
NoContent == "None"

(* response.choices[0].message, or the exception of the client *)
Completions ==
    { [kind |-> "exception", message |-> "Connection error."],
      [kind |-> "message", content |-> "It is 3400 km.", tool_calls |-> <<>>] }
    \cup { [kind |-> "message", content |-> NoContent, tool_calls |-> l] :
             l \in ToolCallLists }

(* the values of max_iterations *)
IterationLimits == (-1)..MaxIterations

(* ---------------- chat: lines 75-143 ---------------- *)

(* chat up to its first chat-completion request: lines 79-95 *)
Chat ==
    /\ chat_pc = "idle"
    /\ \E limit \in IterationLimits :
          /\ max_iterations' = limit
          /\ IF LoopGoesOn(0, limit)
             THEN /\ chat_pc' = "requesting"
                  /\ chat_result' = ""
             ELSE /\ chat_pc' = "returned"
                  /\ chat_result' = MaxIterationsText
    /\ messages' = << SystemMessage, UserMessage("How far is Paris?") >>
    /\ iteration' = 0
    /\ tool_calls' = <<>>
    /\ next_call' = 0
    /\ completions' = <<>>
    /\ UNCHANGED <<pc, op, result>>
    /\ UNCHANGED <<routingVars, httpVars, taskVars>>

(* the request of lines 96-101 and what follows its answer: lines 103-124 *)
CreateCompletion ==
    /\ chat_pc = "requesting"
    /\ iteration' = iteration + 1
    /\ \E response \in Completions :
          /\ completions' = Append(completions, [messages |-> messages, response |-> response])
          /\ IF response.kind = "exception"
             THEN /\ chat_pc' = "raised"
                  /\ chat_result' = response.message
                  /\ UNCHANGED <<messages, tool_calls, next_call>>
             ELSE IF response.tool_calls = <<>>
             THEN /\ chat_pc' = "returned"
                  /\ chat_result' = response.content
                  /\ UNCHANGED <<messages, tool_calls, next_call>>
             ELSE /\ chat_pc' = "executing"
                  /\ messages' = Append(messages, AssistantMessage(response))
                  /\ tool_calls' = response.tool_calls
                  /\ next_call' = 1
                  /\ UNCHANGED chat_result
    /\ UNCHANGED max_iterations
    /\ UNCHANGED <<pc, op, result>>
    /\ UNCHANGED <<routingVars, httpVars, taskVars>>

(* one pass of the loop of lines 127-141, and after the last one the next *)
(* iteration of line 95 or the return of line 143                          *)
ExecuteTool ==
    /\ chat_pc = "executing"
    /\ LET tool_call == tool_calls[next_call]
           function_name == tool_call.function.name
           arguments == json_loads(tool_call.function.arguments)
       IN  IF arguments.raised
           THEN /\ chat_pc' = "raised"
                /\ chat_result' = arguments.message
                /\ UNCHANGED <<messages, next_call>>
           ELSE \E upstream \in Upstream(function_name, arguments.value) :
                   \E outcome \in { execute_function(function_name, arguments.value, upstream) } :
                   IF outcome.raised
                   THEN /\ chat_pc' = "raised"
                        /\ chat_result' = outcome.message
                        /\ UNCHANGED <<messages, next_call>>
                   ELSE /\ messages' = Append(messages, ToolMessage(tool_call, outcome.value))
                        /\ next_call' = next_call + 1
                        /\ IF next_call < Len(tool_calls)
                           THEN UNCHANGED <<chat_pc, chat_result>>
                           ELSE IF LoopGoesOn(iteration, max_iterations)
                           THEN /\ chat_pc' = "requesting"
                                /\ UNCHANGED chat_result
                           ELSE /\ chat_pc' = "returned"
                                /\ chat_result' = MaxIterationsText
    /\ UNCHANGED <<max_iterations, iteration, tool_calls, completions>>
    /\ UNCHANGED <<pc, op, result>>
    /\ UNCHANGED <<routingVars, httpVars, taskVars>>

(* the caller has the answer, or the exception, of chat *)
ChatReturn ==
    /\ chat_pc \in {"returned", "raised"}
    /\ chat_pc' = "idle"
    /\ max_iterations' = 0
    /\ iteration' = 0
    /\ messages' = <<>>
    /\ tool_calls' = <<>>
    /\ next_call' = 0
    /\ completions' = <<>>
    /\ chat_result' = ""
    /\ UNCHANGED <<pc, op, result>>
    /\ UNCHANGED <<routingVars, httpVars, taskVars>>

NextChat ==
    \/ Chat
    \/ CreateCompletion
    \/ ExecuteTool
    \/ ChatReturn

SpecChat == Init /\ [][NextChat]_vars

(* ---------------- properties of find_nearby ---------------- *)

NearbyDone == pc = "done" /\ op = "find_nearby"

ComputedKeys == {"distance_km", "bearing", "direction"}

(* a record with both coordinates, whatever else it holds *)
Complete(loc) ==
    /\ "latitude" \in DOMAIN loc
    /\ "longitude" \in DOMAIN loc
    /\ loc["latitude"] # None
    /\ loc["longitude"] # None

DistanceFromCenter(loc) ==
    _calculate_distance(center[1], center[2], loc["latitude"], loc["longitude"])

Qualifies(loc) == Complete(loc) /\ DistanceFromCenter(loc) <= radius_km

(* C1, as stated: every record returned by find_nearby reports a distance_km *)
(* (rounded to 2 decimals) that is <= radius_km, whatever the radius.        *)
C1_ReportedWithinRadius ==
    NearbyDone => \A i \in DOMAIN result : result[i].distance_km <= radius_km

(* C1, amended: every record returned lies within radius_km by its unrounded  *)
(* distance; its reported distance_km is <= radius_km rounded to 2 decimals,  *)
(* hence <= radius_km when radius_km is a multiple of 0.01.                   *)
C1_WithinRadiusBeforeRounding ==
    NearbyDone =>
        \A i \in DOMAIN result :
            /\ DistanceFromCenter(result[i]) <= radius_km
            /\ result[i].distance_km <= Round(radius_km, 2)
            /\ (radius_km % (Scale \div 100) = 0 => result[i].distance_km <= radius_km)

(* a returned record whose reported distance_km is above the radius *)
C1_Witness ==
    /\ NearbyDone
    /\ \E i \in DOMAIN result :
          /\ result[i].distance_km > radius_km
          /\ DistanceFromCenter(result[i]) <= radius_km

Keys(seq) == { seq[i].distance_km : i \in DOMAIN seq }

WithKey(seq, k) == SelectSeq(seq, LAMBDA r : r.distance_km = k)

(* C2: the list find_nearby returns is in non-decreasing order of            *)
(* distance_km, and records of equal distance_km keep the relative order     *)
(* their candidates had in the input list.                                   *)
C2_SortedAndStable ==
    NearbyDone =>
        LET unsorted == NearbyOf(given, center[1], center[2], radius_km)
        IN  /\ \A i, j \in DOMAIN result :
                  i < j => result[i].distance_km <= result[j].distance_km
            /\ Len(result) = Len(unsorted)
            /\ \A k \in Keys(unsorted) : WithKey(result, k) = WithKey(unsorted, k)

(* two different records of equal distance_km returned, and a nearer one that *)
(* came later in the input                                                    *)
C2_Witness ==
    /\ NearbyDone
    /\ \E i, j \in DOMAIN result :
          /\ i < j
          /\ result[i].distance_km = result[j].distance_km
          /\ result[i].name # result[j].name
    /\ \E a, b \in DOMAIN given :
          /\ a < b
          /\ Qualifies(given[a])
          /\ Qualifies(given[b])
          /\ DistanceFromCenter(given[a]) > DistanceFromCenter(given[b])

Strip(r) == [k \in DOMAIN r \ ComputedKeys |-> r[k]]

Stripped(seq) == [i \in DOMAIN seq |-> Strip(seq[i])]

CountIn(seq, x) == Cardinality({ i \in DOMAIN seq : seq[i] = x })

SameBag(s1, s2) ==
    /\ Len(s1) = Len(s2)
    /\ \A i \in DOMAIN s1 : CountIn(s1, s1[i]) = CountIn(s2, s1[i])

(* C3: find_nearby returns exactly one record for each candidate that has a  *)
(* latitude and a longitude (0 counts as present) and whose distance to the  *)
(* center is <= radius_km (== radius_km included), none for any other        *)
(* candidate, and the empty list when none qualifies.                        *)
C3_ExactlyTheQualifying ==
    NearbyDone =>
        SameBag(Stripped(result), Stripped(SelectSeq(given, Qualifies)))

(* a candidate exactly radius_km away and one at coordinate 0 are returned, *)
(* and another candidate is not                                              *)
C3_Witness ==
    /\ NearbyDone
    /\ Len(result) < Len(given)
    /\ \E i \in DOMAIN result : DistanceFromCenter(result[i]) = radius_km
    /\ \E i \in DOMAIN result : result[i].latitude = 0

(* C4: a candidate without the latitude or the longitude field (or with it  *)
(* None) is skipped without an error, and find_nearby returns what it        *)
(* returns for the list without that candidate, in the same order.           *)
C4_IncompleteSkipped ==
    NearbyDone =>
        result = find_nearby(center[1], center[2], SelectSeq(given, Complete), radius_km)

(* an incomplete candidate between two that are returned *)
C4_Witness ==
    /\ NearbyDone
    /\ Len(given) = 3
    /\ ~Complete(given[2])
    /\ Len(result) = 2

DirectionDone == pc = "done" /\ op = "_bearing_to_direction"

(* how far apart two bearings are on the circle *)
Apart(b1, b2) == Abs(((b1 - b2 + 540 * Scale) % (360 * Scale)) - 180 * Scale)

(* C6: for every bearing in [0, 360) _bearing_to_direction returns one of the *)
(* 8 labels (the index stays within 0..7), the one whose sector centre        *)
(* 45 * index is nearest to the bearing; bearings above 337.5 give North, and *)
(* 0, 45, 90, 180, 270 give North, Northeast, East, South, West.              *)
C6_NearestSector ==
    DirectionDone =>
        /\ \E i \in 0..7 :
              /\ result = directions[i + 1]
              /\ 2 * Apart(bearing_arg, 45 * Scale * i) <= 45 * Scale
        /\ (bearing_arg > 337500 => result = "North")
        /\ (bearing_arg = Deg(0) => result = "North")
        /\ (bearing_arg = Deg(45) => result = "Northeast")
        /\ (bearing_arg = Deg(90) => result = "East")
        /\ (bearing_arg = Deg(180) => result = "South")
        /\ (bearing_arg = Deg(270) => result = "West")

(* a bearing just below 360 was given the label North *)
C6_Witness == DirectionDone /\ bearing_arg = 359999 /\ result = "North"

IsHalfWay(bearing) == bearing % (45 * Scale) = 22500

(* C7, as stated: at the half-way bearing 22.5 + 45 * k the label is that of *)
(* the next sector clockwise (half away from zero).                           *)
C7_HalfAwayFromZero ==
    (DirectionDone /\ IsHalfWay(bearing_arg)) =>
        result = directions[(((bearing_arg \div (45 * Scale)) + 1) % 8) + 1]

HalfWayLabels == <<"North", "East", "East", "South", "South", "West", "West", "North">>

(* C7, amended: at the half-way bearing 22.5 + 45 * k the quotient k + 1/2 is *)
(* rounded to the even neighbour: 22.5 -> North, 67.5 -> East, 112.5 -> East, *)
(* 157.5 -> South, 202.5 -> South, 247.5 -> West, 292.5 -> West,              *)
(* 337.5 -> North.                                                            *)
C7_HalfToEven ==
    (DirectionDone /\ IsHalfWay(bearing_arg)) =>
        result = HalfWayLabels[(bearing_arg \div (45 * Scale)) + 1]

(* 22.5 was given the label North, not Northeast *)
C7_Witness == DirectionDone /\ bearing_arg = 22500 /\ result = "North"

(* ---------------- properties of calculate_route ---------------- *)

RouteDone == pc = "done" /\ op = "calculate_route"

RouteFor(mode) ==
    IF route_args.mode = mode THEN result
    ELSE calculate_route(route_args.start[1], route_args.start[2],
                         route_args.end[1], route_args.end[2], mode)

DirectDistance ==
    _calculate_distance(route_args.start[1], route_args.start[2],
                        route_args.end[1], route_args.end[2])

(* duration_minutes of a route whose direct distance is d: lines 103-113, 137 *)
DurationMinutesAt(d, mode) ==
    Round(EstimatedTimeMinutes(FMul(d, RouteFactor(mode)), mode), 1)

(* direct distances from 0 to MaxShort grains (metres), beside those of the *)
(* coordinates above                                                         *)
ShortDistances == 0..MaxShort

(* C8, as stated: for the same pair of coordinates the duration_minutes of *)
(* walking, cycling and driving are strictly decreasing.                    *)
C8_StrictlySlower ==
    RouteDone =>
        /\ RouteFor("walking").duration_minutes > RouteFor("cycling").duration_minutes
        /\ RouteFor("cycling").duration_minutes > RouteFor("driving").duration_minutes

(* C8, amended: for the same pair of coordinates walking >= cycling >=       *)
(* driving in duration_minutes, strictly when the two points are at least    *)
(* 0.05 km apart; for one and the same point all three are 0.                *)
C8_SlowerOnceApart ==
    RouteDone =>
        LET w == RouteFor("walking").duration_minutes
            c == RouteFor("cycling").duration_minutes
            d == RouteFor("driving").duration_minutes
        IN  /\ w >= c /\ c >= d
            /\ (DirectDistance >= Lit(0, 50) => w > c /\ c > d)
            /\ (route_args.start = route_args.end => w = 0 /\ c = 0 /\ d = 0)
            /\ w = DurationMinutesAt(DirectDistance, "walking")
            /\ \A x \in ShortDistances :
                  LET wx == DurationMinutesAt(x, "walking")
                      cx == DurationMinutesAt(x, "cycling")
                      dx == DurationMinutesAt(x, "driving")
                  IN  /\ wx >= cx /\ cx >= dx
                      /\ (x >= Lit(0, 50) => wx > cx /\ cx > dx)

(* a walking route between two different points, slower than cycling and driving *)
C8_Witness ==
    /\ RouteDone
    /\ route_args.mode = "walking"
    /\ route_args.start # route_args.end
    /\ result.duration_minutes > RouteFor("cycling").duration_minutes
    /\ RouteFor("cycling").duration_minutes > RouteFor("driving").duration_minutes

KnownModes == {"driving", "walking", "cycling"}

(* C9: with a mode other than driving, walking, cycling, calculate_route      *)
(* returns a result (no error) with the distance_km, duration_minutes,        *)
(* duration_text and steps of the driving call for the same coordinates       *)
(* (factor 1.3, 60 km/h), and the mode field echoes the string given.         *)
C9_UnknownModeAsDriving ==
    (RouteDone /\ route_args.mode \notin KnownModes) =>
        LET driving == RouteFor("driving")
            est == FMul(DirectDistance, Lit(1, 300))
        IN  /\ result.distance_km = driving.distance_km
            /\ result.duration_minutes = driving.duration_minutes
            /\ result.duration_text = driving.duration_text
            /\ result.steps = driving.steps
            /\ result.mode = route_args.mode
            /\ driving.mode = "driving"
            /\ result.distance_km = Round(est, 2)
            /\ result.duration_minutes = Round(FDivInt(est, 60) * 60, 1)

(* a route of positive length asked for with the mode flying *)
C9_Witness ==
    /\ RouteDone
    /\ route_args.mode = "flying"
    /\ result.mode = "flying"
    /\ result.distance_km > 0

InflatedDistance ==
    EstimatedDistance(route_args.start[1], route_args.start[2],
                      route_args.end[1], route_args.end[2], route_args.mode)

StepSum == result.steps[1].distance_km + result.steps[2].distance_km
           + result.steps[3].distance_km

(* C10, as stated: every result has exactly 3 steps, 10%, 80% and 10% of the *)
(* inflated route distance, so that the three add up to it.                   *)
C10_StepsAddUp ==
    RouteDone => Len(result.steps) = 3 /\ StepSum = InflatedDistance

(* C10, amended: every result has exactly 3 steps whose distance_km are the   *)
(* products of the inflated distance by 0.1, 0.8 and 0.1, in that order, each *)
(* rounded to the precision of the arithmetic (within half a grain of 10%,    *)
(* 80%, 10%); the three add up to the inflated distance up to that rounding.  *)
C10_StepsAddUpToRounding ==
    RouteDone =>
        /\ Len(result.steps) = 3
        /\ 2 * Abs(10 * result.steps[1].distance_km - InflatedDistance) <= 10
        /\ 2 * Abs(10 * result.steps[2].distance_km - 8 * InflatedDistance) <= 10
        /\ result.steps[3].distance_km = result.steps[1].distance_km
        /\ Abs(StepSum - InflatedDistance) <= 1

(* a route whose three step distances do not add up to the inflated distance *)
C10_Witness ==
    /\ RouteDone
    /\ InflatedDistance > 0
    /\ Len(result.steps) = 3
    /\ StepSum # InflatedDistance

(* ---------------- C11: the duration text ---------------- *)

EstimatedMinutes == EstimatedTimeMinutes(InflatedDistance, route_args.mode)

(* estimated durations around 0, around one hour and around a day, in minutes *)
DurationProbes ==
    (0..MaxShort) \cup ((60 * Scale - MaxShort)..(60 * Scale + MaxShort))
    \cup ((1440 * Scale - MaxShort)..(1440 * Scale + MaxShort))

(* the text the claim describes for an estimate of m minutes *)
DurationTextOf(m) ==
    LET whole == m \div Scale
    IN  IF m >= 60 * Scale
        THEN ToString(whole \div 60) \o "h " \o ToString(whole % 60) \o "m"
        ELSE ToString(whole) \o " min"

(* C11: duration_text is "Xh Ym", X the whole hours and Y the remaining whole *)
(* minutes (0..59), when the estimated duration is at least 60 minutes, and   *)
(* "X min", X the whole minutes (0..59), otherwise.                           *)
C11_DurationTextForm ==
    RouteDone =>
        /\ result.duration_text = DurationTextOf(EstimatedMinutes)
        /\ \A m \in DurationProbes :
              /\ DurationText(m) = DurationTextOf(m)
              /\ (m < 60 * Scale => m \div Scale \in 0..59)
              /\ (m >= 60 * Scale => (m \div Scale) \div 60 >= 1)

(* a route of more than an hour with minutes left over, told in the hours form *)
C11_Witness ==
    /\ RouteDone
    /\ EstimatedMinutes >= 60 * Scale
    /\ (EstimatedMinutes \div Scale) % 60 # 0
    /\ result.duration_text = DurationTextOf(EstimatedMinutes)
    /\ DurationText(60 * Scale - 1) = "59 min"
    /\ DurationText(60 * Scale) = "1h 0m"

(* ---------------- C12, C13: the distance matrix ---------------- *)

MatrixDone == pc = "done" /\ op = "distance_matrix"

(* C12: for k origins and m destinations the matrix has exactly k rows of     *)
(* exactly m cells; the cell of row i, column j (counted from 0) carries      *)
(* origin_index i and destination_index j and is computed from origins[i] and *)
(* destinations[j]; with no origins the matrix has no row, with no            *)
(* destinations every row is empty.                                           *)
C12_MatrixShape ==
    MatrixDone =>
        LET origins == matrix_args.origins
            destinations == matrix_args.destinations
            matrix == result.matrix
        IN  /\ Len(matrix) = Len(origins)
            /\ (origins = <<>> => matrix = <<>>)
            /\ \A i \in 1..Len(origins) :
                  /\ Len(matrix[i]) = Len(destinations)
                  /\ (destinations = <<>> => matrix[i] = <<>>)
                  /\ \A j \in 1..Len(destinations) :
                        LET distance ==
                                _calculate_distance(origins[i][1], origins[i][2],
                                                    destinations[j][1], destinations[j][2])
                        IN  /\ matrix[i][j].origin_index = i - 1
                            /\ matrix[i][j].destination_index = j - 1
                            /\ matrix[i][j].distance_km = Round(distance, 2)
                            /\ matrix[i][j].route_distance_km
                                   = Round(FMul(distance, Lit(1, 300)), 2)

(* a 2 x 2 matrix whose four cells hold four different pairs of indices and *)
(* whose first row has two different distances                                *)
C12_Witness ==
    /\ MatrixDone
    /\ Len(matrix_args.origins) = 2
    /\ Len(matrix_args.destinations) = 2
    /\ Len(result.matrix) = 2
    /\ Len(result.matrix[2]) = 2
    /\ result.matrix[2][1].origin_index = 1
    /\ result.matrix[2][1].destination_index = 0
    /\ result.matrix[1][2].origin_index = 0
    /\ result.matrix[1][2].destination_index = 1
    /\ result.matrix[1][1].distance_km # result.matrix[1][2].distance_km
    /\ result.matrix[1][2].distance_km # result.matrix[2][1].distance_km

(* C13: in every cell of a distance_matrix result the reported distance_km is *)
(* at most the reported route_distance_km, both rounded to 2 decimals.        *)
C13_DirectAtMostRoute ==
    MatrixDone =>
        \A i \in 1..Len(result.matrix) :
            \A j \in 1..Len(result.matrix[i]) :
                result.matrix[i][j].distance_km <= result.matrix[i][j].route_distance_km

(* a cell between two different points: 0 < distance_km < route_distance_km *)
C13_Witness ==
    /\ MatrixDone
    /\ \E i \in 1..Len(result.matrix) :
          \E j \in 1..Len(result.matrix[i]) :
              /\ result.matrix[i][j].distance_km > 0
              /\ result.matrix[i][j].distance_km < result.matrix[i][j].route_distance_km

(* ---------------- C14: symmetry of the distance ---------------- *)

DistanceDone ==
    /\ pc = "done"
    /\ op \in {"RoutingServer._calculate_distance", "GeocodingServer._calculate_distance"}

(* the distance the called server computes between two points *)
DistanceBetween(a, b) ==
    IF op = "RoutingServer._calculate_distance"
    THEN _calculate_distance(a[1], a[2], b[1], b[2])
    ELSE Geocoding_calculate_distance(a[1], a[2], b[1], b[2])

(* C14, as stated: for all coordinates A and B, _calculate_distance(A, B) is *)
(* a distance equal to _calculate_distance(B, A), and _calculate_distance(A, *)
(* A) is exactly 0, for the copy of either server.                          *)
C14_SymmetricAndZero ==
    DistanceDone =>
        /\ result # ValueError
        /\ result = DistanceBetween(route_args.end, route_args.start)
        /\ DistanceBetween(route_args.start, route_args.start) = 0

(* ---------------- C15: one and the same point ---------------- *)

(* C15: when origin and destination are the same point, _calculate_bearing   *)
(* returns 0 and calculate_route returns a result with distance_km 0,        *)
(* duration_minutes 0, duration_text "0 min", bearing 0 and direction North. *)
C15_SamePoint ==
    (RouteDone /\ route_args.start = route_args.end) =>
        /\ _calculate_bearing(route_args.start[1], route_args.start[2],
                              route_args.end[1], route_args.end[2]) = 0
        /\ result.distance_km = 0
        /\ result.duration_minutes = 0
        /\ result.duration_text = "0 min"
        /\ result.bearing = 0
        /\ result.direction = "North"
        /\ \A p \in DistancePoints : _calculate_bearing(p[1], p[2], p[1], p[2]) = 0

(* a walking route from a point off the equator and off the prime meridian to itself *)
C15_Witness ==
    /\ RouteDone
    /\ route_args.start = <<Deg(20), Deg(30)>>
    /\ route_args.end = route_args.start
    /\ route_args.mode = "walking"
    /\ result.duration_text = "0 min"
    /\ result.direction = "North"

(* ---------------- C16: no state carried between calls ---------------- *)

SimpleOps == {"geocode", "reverse_geocode", "search_places", "get_weather", "weather_forecast"}

ListReturning == {"geocode", "search_places"}

WrapperDone == pc = "done" /\ call # NoCall

(* how the status 200 branch of the operation ends on a body *)
ParseOf(c, body) ==
    IF c.op = "geocode" THEN GeocodeParse(body)
    ELSE IF c.op = "reverse_geocode" THEN ReverseParse(c, body)
    ELSE IF c.op = "search_places" THEN SearchParse(c, body)
    ELSE IF c.op = "get_weather" THEN CurrentParse(c, body)
    ELSE ForecastParse(c, body)

(* the request failed: an exception, a status other than 200, or a body the *)
(* parsing code raises on                                                    *)
UpstreamFailed(c, outcome) ==
    \/ outcome.kind = "exception"
    \/ outcome.status # 200
    \/ ParseOf(c, outcome.body).raised

LastReply == sent[Len(sent)].reply

(* C17: for geocode, reverse_geocode, search_places, get_weather and          *)
(* weather_forecast, a status other than 200 or an exception raised while     *)
(* requesting or parsing does not leave the call: the call returns a record   *)
(* holding only the key error, inside a one-element list for geocode and      *)
(* search_places.                                                             *)
C17_FailuresReturnedAsData ==
    (WrapperDone /\ call.op \in SimpleOps /\ UpstreamFailed(call, LastReply)) =>
        LET record == IF call.op \in ListReturning THEN result[1] ELSE result
        IN  /\ call.op \in ListReturning => Len(result) = 1
            /\ DOMAIN record = {"error"}
            /\ (LastReply.kind = "response" /\ LastReply.status # 200) =>
                   record.error = "API returned status " \o ToString(LastReply.status)
            /\ LastReply.kind = "exception" => record.error = LastReply.message

(* search_places answered with status 200 and an item without lat: the      *)
(* TypeError of float(None) comes back as the one error record of the list   *)
C17_Witness ==
    /\ WrapperDone
    /\ call.op = "search_places"
    /\ LastReply.kind = "response"
    /\ LastReply.status = 200
    /\ SearchParse(call, LastReply.body).raised
    /\ result = << [error |-> FloatOfNoneMessage] >>

(* ---------------- C18: one round-trip, no retry ---------------- *)

WrapperCalled == call # NoCall

(* C18, as stated: every call of a geocoding or weather wrapper operation   *)
(* issues one request, and none after a request that failed.                *)
C18_OneRoundTrip ==
    WrapperCalled =>
        /\ Len(sent) <= 1
        /\ pc = "done" => Len(sent) = 1
        /\ \A i \in 1..Len(sent) :
              (i < Len(sent)) =>
                  ~(sent[i].reply.kind = "exception" \/ sent[i].reply.status # 200)

(* C18, amended: a call of geocode, reverse_geocode, search_places,          *)
(* get_weather or weather_forecast issues exactly one request and none after *)
(* it, failed or not.  A call of location_weather_info issues the request of *)
(* its current-weather fetch and, when include_forecast is true, after that  *)
(* one was answered (failed or not) the request of its forecast fetch: one   *)
(* or two requests, none of them sent twice.                                 *)
C18_OneRequestPerFetch ==
    WrapperCalled =>
        /\ call.op \in SimpleOps =>
              /\ Len(sent) <= 1
              /\ pc = "done" => Len(sent) = 1
        /\ call.op = "location_weather_info" =>
              /\ Len(sent) <= 2
              /\ pc = "done" => Len(sent) = (IF call.include_forecast THEN 2 ELSE 1)
              /\ Len(sent) >= 1 => sent[1].request = CurrentRequest(CurrentCallOf(call))
              /\ Len(sent) = 2 =>
                    /\ call.include_forecast
                    /\ sent[1].reply # Pending
                    /\ sent[2].request = ForecastRequest(ForecastCallOf(call))
        /\ \A i \in 1..Len(sent) : \A j \in 1..Len(sent) :
              (i # j) => sent[i].request # sent[j].request

(* location_weather_info whose first request failed and whose second request *)
(* was issued all the same                                                    *)
C18_Witness ==
    /\ WrapperDone
    /\ call.op = "location_weather_info"
    /\ Len(sent) = 2
    /\ sent[1].reply.kind = "response"
    /\ sent[1].reply.status = 500
    /\ sent[2].reply.kind = "response"
    /\ sent[2].reply.status = 200

(* ---------------- C19, C20: the delay before a request ---------------- *)

(* C19, as stated: in both wrappers a request is issued only when at least  *)
(* the minimum interval has gone by since the wrapper's previous request.   *)
C19_BothWrappersDelay ==
    \A i \in 1..Len(sent) :
        (sent[i].prev_issue # None) =>
            sent[i].at - sent[i].prev_issue >= min_request_interval

(* C19, amended: only the geocoding wrapper delays.  Before each request it *)
(* sleeps exactly when less than min_request_interval has gone by since its *)
(* last_request_time, until that interval is over, and not at all           *)
(* otherwise.  The weather wrapper issues every request at once, however    *)
(* short the time since its previous request.                               *)
C19_OnlyGeocodingDelays ==
    /\ \A i \in 1..Len(sent) :
          LET e == sent[i]
          IN  IF e.request.server = "geocoding"
              THEN /\ e.slept = (e.entered - e.prev_recorded < min_request_interval)
                   /\ e.slept => e.at >= e.prev_recorded + min_request_interval
                   /\ ~e.slept => e.at = e.entered
              ELSE /\ ~e.slept
                   /\ e.at = e.entered
    /\ pc = "sleeping" =>
          /\ call.op \in {"geocode", "reverse_geocode", "search_places"}
          /\ wake = last_request_time + min_request_interval

(* a weather request issued at the very time of the previous weather request, *)
(* on a clock at which the geocoding wrapper has already served a request     *)
C19_Witness ==
    /\ Len(sent) >= 1
    /\ sent[Len(sent)].request.server = "weather"
    /\ sent[Len(sent)].prev_issue # None
    /\ sent[Len(sent)].at = sent[Len(sent)].prev_issue
    /\ ~sent[Len(sent)].slept
    /\ last_issue.geocoding # None

(* C20: with geocode, reverse_geocode and search_places called one after the *)
(* other on one GeocodingServer, every request after the first is issued at  *)
(* least min_request_interval (1.0 s) after the last_request_time recorded   *)
(* for the request before it, and the first request is issued without delay. *)
C20_SequentialSpacing ==
    \A i \in 1..Len(sent) :
        LET e == sent[i]
        IN  (e.request.server = "geocoding") =>
                /\ (e.prev_issue # None) =>
                      /\ e.prev_recorded = e.prev_issue
                      /\ e.at >= e.prev_recorded + min_request_interval
                      /\ last_request_time = e.at
                /\ (e.prev_issue = None) =>
                      /\ e.prev_recorded = 0
                      /\ ~e.slept
                      /\ e.at = e.entered

(* a second geocoding request, called half a second after the first and held *)
(* back until exactly one interval after it                                   *)
C20_Witness ==
    /\ Len(sent) = 1
    /\ sent[1].request.server = "geocoding"
    /\ sent[1].prev_issue # None
    /\ sent[1].slept
    /\ sent[1].entered = sent[1].prev_recorded + TickLength
    /\ sent[1].at = sent[1].prev_recorded + min_request_interval

(* ---------------- C21: the number of forecast days ---------------- *)

(* values of the days argument below, inside and above 1..16 *)
DayProbes == (-5)..40

ForecastSent ==
    /\ call # NoCall
    /\ call.op = "weather_forecast"
    /\ Len(sent) = 1

(* the claim's description of the number of days requested for an argument *)
DaysFor(days) == IF days <= 0 THEN 1 ELSE IF days >= 17 THEN 16 ELSE days

(* C21: for every integer days, weather_forecast requests forecast_days =   *)
(* min(max(days, 1), 16): always within 1..16, days itself when that is     *)
(* within 1..16, 1 for days <= 0 and 16 for days >= 17.                     *)
C21_DaysClamped ==
    /\ ForecastSent =>
          /\ sent[1].request.params.forecast_days \in 1..16
          /\ sent[1].request.params.forecast_days = DaysFor(call.days)
    /\ \A days \in DayProbes :
          /\ ClampDays(days) \in 1..16
          /\ ClampDays(days) = DaysFor(days)

(* a forecast asked for 20 days and requested for 16 *)
C21_Witness ==
    /\ ForecastSent
    /\ call.days = 20
    /\ sent[1].request.params.forecast_days = 16
    /\ ClampDays(0) = 1

(* ---------------- C22: the keys of location_weather_info ---------------- *)

InfoDone == WrapperDone /\ call.op = "location_weather_info"

(* C22: the result of location_weather_info always has the keys location and *)
(* current_weather, and has the key forecast exactly when include_forecast   *)
(* is true, whether the upstream requests succeed or fail.                   *)
C22_InfoKeys ==
    InfoDone =>
        /\ "location" \in DOMAIN result
        /\ "current_weather" \in DOMAIN result
        /\ ("forecast" \in DOMAIN result) = call.include_forecast

(* a call with include_forecast whose two requests both failed and whose *)
(* result has the three keys all the same                                   *)
C22_Witness ==
    /\ InfoDone
    /\ call.include_forecast
    /\ Len(sent) = 2
    /\ UpstreamFailed(CurrentCallOf(call), sent[1].reply)
    /\ UpstreamFailed(ForecastCallOf(call), sent[2].reply)
    /\ DOMAIN result = {"location", "current_weather", "forecast"}

(* ---------------- C29: failures inside location_weather_info ---------------- *)

InfoWithForecastDone == InfoDone /\ call.include_forecast

CurrentFailed == UpstreamFailed(CurrentCallOf(call), sent[1].reply)

ForecastFailed == UpstreamFailed(ForecastCallOf(call), sent[2].reply)

(* C29: in location_weather_info with include_forecast true, both fetches are *)
(* attempted whatever the other one did and the call returns a record.  A     *)
(* failed forecast fetch gives forecast = the empty list, and the rest of the *)
(* result (location, current_weather, no other key) is what the first fetch   *)
(* alone determines, so nothing in it tells of the forecast failure.  A       *)
(* failed current-weather fetch gives a record with the one key error under   *)
(* current_weather.                                                           *)
C29_ForecastFailureSilent ==
    InfoWithForecastDone =>
        /\ Len(sent) = 2
        /\ sent[1].request = CurrentRequest(CurrentCallOf(call))
        /\ sent[2].request = ForecastRequest(ForecastCallOf(call))
        /\ ForecastFailed =>
              /\ DOMAIN result = {"location", "current_weather", "forecast"}
              /\ result.forecast = <<>>
              /\ result.current_weather = get_weather(CurrentCallOf(call), sent[1].reply)
              /\ result.location = [name |-> call.location_name,
                                    latitude |-> call.latitude,
                                    longitude |-> call.longitude]
        /\ CurrentFailed =>
              /\ DOMAIN result.current_weather = {"error"}
              /\ sent[1].reply.kind = "exception" =>
                    result.current_weather.error = sent[1].reply.message
              /\ (sent[1].reply.kind = "response" /\ sent[1].reply.status # 200) =>
                    result.current_weather.error =
                        "API returned status " \o ToString(sent[1].reply.status)

(* the current weather arrived, the forecast request got a 500, and the *)
(* result holds the current weather and an empty forecast                *)
C29_Witness ==
    /\ InfoWithForecastDone
    /\ Len(sent) = 2
    /\ ~CurrentFailed
    /\ sent[2].reply.kind = "response"
    /\ sent[2].reply.status = 500
    /\ result.forecast = <<>>
    /\ "error" \notin DOMAIN result.current_weather

(* ---------------- C30: search_places with and without a reference point ---------------- *)

SearchSucceeded ==
    /\ WrapperDone
    /\ call.op = "search_places"
    /\ ~UpstreamFailed(call, LastReply)

(* the items of the upstream answer, in the order they came *)
UpstreamItems == IF LastReply.body.shape = "list" THEN LastReply.body.items ELSE <<>>

(* C30: on a successful search_places call with both near_lat and near_lon,  *)
(* every result has distance_km and the results are in non-decreasing        *)
(* distance_km order; with either one missing, no result has distance_km,    *)
(* the request carries no viewbox, and the results are the upstream items in *)
(* the upstream order.                                                       *)
C30_NearSortedElseUpstreamOrder ==
    SearchSucceeded =>
        IF call.near_lat # None /\ call.near_lon # None
        THEN /\ \A i \in 1..Len(result) : "distance_km" \in DOMAIN result[i]
             /\ \A i, j \in 1..Len(result) :
                   i < j => result[i].distance_km <= result[j].distance_km
        ELSE /\ \A i \in 1..Len(result) : "distance_km" \notin DOMAIN result[i]
             /\ "viewbox" \notin DOMAIN sent[1].request.params
             /\ Len(result) = Len(UpstreamItems)
             /\ \A i \in 1..Len(result) :
                   /\ result[i].name = UpstreamItems[i].display_name
                   /\ result[i].latitude = UpstreamItems[i].lat
                   /\ result[i].longitude = UpstreamItems[i].lon

(* a search near a point whose answer came farthest first and is returned *)
(* nearest first                                                           *)
C30_Witness ==
    /\ SearchSucceeded
    /\ call.near_lat # None
    /\ call.near_lon # None
    /\ UpstreamItems = <<PlaceB, PlaceA>>
    /\ Len(result) = 2
    /\ result[1].name = "A"
    /\ result[2].name = "B"
    /\ result[1].distance_km < result[2].distance_km

(* a search with near_lat alone: two results in the upstream order, without *)
(* distances                                                                *)
C30_WitnessNoPoint ==
    /\ SearchSucceeded
    /\ call.near_lat # None
    /\ call.near_lon = None
    /\ Len(result) = 2
    /\ result[1].name = "B"
    /\ result[2].name = "A"

(* ---------------- C27: distance_matrix against calculate_route ---------------- *)

(* what calculate_route returns for the driving route from origin to destination *)
DrivingRoute(origin, destination) ==
    calculate_route(origin[1], origin[2], destination[1], destination[2], "driving")

(* C27: for every origin i and destination j the route_distance_km and the   *)
(* duration_minutes of cell (i, j) of a distance_matrix result equal the      *)
(* distance_km and the duration_minutes calculate_route returns for           *)
(* origins[i] -> destinations[j] with mode driving.                           *)
C27_CellIsDrivingRoute ==
    MatrixDone =>
        \A i \in 1..Len(matrix_args.origins) :
            \A j \in 1..Len(matrix_args.destinations) :
                LET route == DrivingRoute(matrix_args.origins[i], matrix_args.destinations[j])
                    cell == result.matrix[i][j]
                IN  /\ cell.route_distance_km = route.distance_km
                    /\ cell.duration_minutes = route.duration_minutes

(* a matrix with a cell between two different points, whose route distance *)
(* and duration are those of the driving route and not zero                 *)
C27_Witness ==
    /\ MatrixDone
    /\ Len(matrix_args.origins) >= 1
    /\ Len(matrix_args.destinations) = 2
    /\ matrix_args.origins[1] # matrix_args.destinations[2]
    /\ result.matrix[1][2].route_distance_km > 0
    /\ result.matrix[1][2].duration_minutes > 0
    /\ result.matrix[1][2].route_distance_km =
           DrivingRoute(matrix_args.origins[1], matrix_args.destinations[2]).distance_km

(* ---------------- C28: the two duration fields ---------------- *)

(* the two forms of the text for an estimate of m minutes *)
HoursForm(m) ==
    ToString((m \div Scale) \div 60) \o "h " \o ToString((m \div Scale) % 60) \o "m"

MinutesForm(m) == ToString(m \div Scale) \o " min"

(* the estimates the two fields tell differently: 59.95 up to, not including, 60 *)
RoundedUpToTheHour == Lit(59, 950)..(60 * Scale - 1)

(* C28, as stated: duration_text has the "Xh Ym" form exactly when the        *)
(* reported duration_minutes (rounded to 1 decimal) is at least 60, and the   *)
(* "X min" form exactly when it is below 60.                                  *)
C28_DurationFieldsAgree ==
    RouteDone =>
        /\ (result.duration_text = HoursForm(EstimatedMinutes))
              <=> (result.duration_minutes >= 60 * Scale)
        /\ \A m \in DurationProbes :
              /\ (DurationText(m) = HoursForm(m)) <=> (Round(m, 1) >= 60 * Scale)
              /\ (DurationText(m) = MinutesForm(m)) <=> (Round(m, 1) < 60 * Scale)

(* C28, amended: the form of duration_text follows the estimate before        *)
(* rounding: "Xh Ym" exactly when it is at least 60 minutes, "X min" exactly  *)
(* when it is below.  A text in the hours form always comes with a reported   *)
(* duration_minutes of at least 60; the two fields disagree exactly for the   *)
(* estimates from 59.95 up to 60, reported as 60.0 with the text "59 min".    *)
C28_FormFollowsEstimate ==
    RouteDone =>
        /\ (result.duration_text = HoursForm(EstimatedMinutes))
              <=> (EstimatedMinutes >= 60 * Scale)
        /\ result.duration_minutes = Round(EstimatedMinutes, 1)
        /\ (result.duration_text = HoursForm(EstimatedMinutes))
              => (result.duration_minutes >= 60 * Scale)
        /\ \A m \in DurationProbes :
              /\ (DurationText(m) = HoursForm(m)) <=> (m >= 60 * Scale)
              /\ (DurationText(m) = MinutesForm(m)) <=> (m < 60 * Scale)
              /\ ((DurationText(m) = HoursForm(m)) <=> (Round(m, 1) >= 60 * Scale))
                    <=> (m \notin RoundedUpToTheHour)
              /\ m \in RoundedUpToTheHour =>
                    /\ Round(m, 1) = 60 * Scale
                    /\ DurationText(m) = "59 min"

(* a route of an hour or more reported in both fields as such, and the *)
(* estimate of 59.95 minutes reported as 60.0 and "59 min"              *)
C28_Witness ==
    /\ RouteDone
    /\ result.duration_minutes >= 60 * Scale
    /\ result.duration_text = HoursForm(EstimatedMinutes)
    /\ Lit(59, 950) \in DurationProbes
    /\ Round(Lit(59, 950), 1) = 60 * Scale
    /\ DurationText(Lit(59, 950)) = "59 min"
    /\ Round(Lit(59, 949), 1) = Lit(59, 900)

(* ---------------- C23: the rate limit under concurrent calls ---------------- *)

(* C23: when two or more coroutines call geocode, reverse_geocode or         *)
(* search_places concurrently on one GeocodingServer, no two requests are     *)
(* issued less than min_request_interval (1.0 s) apart.                       *)
C23_ConcurrentSpacing ==
    \A i, j \in 1..Len(issued) :
        i < j => issued[j].at - issued[i].at >= min_request_interval

(* two coroutines that slept through the same interval have issued their *)
(* requests at the same moment                                            *)
C23_IssuedTogether ==
    \E i, j \in 1..Len(issued) :
        /\ i < j
        /\ issued[i].task # issued[j].task
        /\ issued[i].at = issued[j].at

(* ---------------- C24: chat ends within max_iterations requests ---------------- *)

ChatRunning == chat_pc \in {"requesting", "executing"}

ChatEnded == chat_pc \in {"returned", "raised"}

(* the responses received so far *)
Responses == [j \in 1..Len(completions) |-> completions[j].response]

CarriesToolCalls(response) == response.kind = "message" /\ response.tool_calls # <<>>

IsAnswer(response) == response.kind = "message" /\ response.tool_calls = <<>>

(* the number of iterations of range(max_iterations) *)
IterationLimit == IF max_iterations > 0 THEN max_iterations ELSE 0

AllCarriedToolCalls ==
    /\ Len(completions) = IterationLimit
    /\ \A j \in 1..Len(completions) : CarriesToolCalls(Responses[j])

(* the tool call being executed raises: its arguments are no JSON, or the *)
(* function raises for some answer of the upstream services                *)
ToolCallRaises(tool_call, message) ==
    LET arguments == json_loads(tool_call.function.arguments)
    IN  IF arguments.raised THEN arguments.message = message
        ELSE \E upstream \in Upstream(tool_call.function.name, arguments.value) :
                LET outcome == execute_function(tool_call.function.name, arguments.value,
                                                upstream)
                IN  outcome.raised /\ outcome.message = message

(* what is common to the claim as stated and as amended: at most             *)
(* max_iterations requests, none for max_iterations <= 0, and the content of  *)
(* the first response without tool calls returned at once                     *)
RequestsWithinLimit ==
    /\ Len(completions) = iteration
    /\ iteration <= IterationLimit
    /\ (max_iterations <= 0 /\ chat_pc # "idle") =>
           /\ completions = <<>>
           /\ chat_pc = "returned"
           /\ chat_result = MaxIterationsText
    /\ \A j \in 1..Len(completions) :
           IsAnswer(Responses[j]) =>
               /\ j = Len(completions)
               /\ chat_pc = "returned"
               /\ chat_result = Responses[j].content

(* C24, as stated: chat makes at most max_iterations chat-completion         *)
(* requests (none for max_iterations <= 0), returns the content of the first  *)
(* response without tool calls, and returns the fixed text once every one of  *)
(* the max_iterations responses carried tool calls.                           *)
C24_ReturnsWithinLimit ==
    /\ RequestsWithinLimit
    /\ (AllCarriedToolCalls /\ ~ChatRunning /\ chat_pc # "idle") =>
           /\ chat_pc = "returned"
           /\ chat_result = MaxIterationsText

(* what is left to do: the iterations not begun, then the tool calls not executed *)
IterationsLeft == IterationLimit - iteration

CallsLeft == IF chat_pc = "executing" THEN Len(tool_calls) - next_call + 1 ELSE 0

(* a step of a running chat ends it or leaves less to do *)
ChatProgress ==
    ChatRunning =>
        \/ ChatEnded'
        \/ IterationsLeft' < IterationsLeft
        \/ IterationsLeft' = IterationsLeft /\ CallsLeft' < CallsLeft

ChatOutcome ==
    /\ RequestsWithinLimit
    /\ IterationsLeft >= 0
    /\ CallsLeft >= 0
    /\ chat_pc = "returned" =>
           \/ completions # <<>> /\ IsAnswer(Responses[Len(completions)])
           \/ AllCarriedToolCalls /\ chat_result = MaxIterationsText
    /\ chat_pc = "raised" =>
           /\ completions # <<>>
           /\ LET last == Responses[Len(completions)]
              IN  \/ last.kind = "exception" /\ chat_result = last.message
                  \/ /\ CarriesToolCalls(last)
                     /\ next_call \in 1..Len(tool_calls)
                     /\ ToolCallRaises(tool_calls[next_call], chat_result)
    /\ (AllCarriedToolCalls /\ chat_pc = "returned" /\ iteration >= 1) =>
           /\ Len(messages) >= 2
           /\ messages[Len(messages)].role = "tool"
           /\ next_call = Len(tool_calls) + 1

(* C24, amended: chat makes at most max_iterations chat-completion requests  *)
(* (none for max_iterations <= 0) and every step of it ends it or leaves less *)
(* to do.  It returns the content of the first response without tool calls;   *)
(* it returns the fixed text once every one of the max_iterations responses   *)
(* carried tool calls and all of them were executed; it raises, making no     *)
(* further request, when a chat-completion request raises, when the           *)
(* arguments of a tool call are no JSON, or when the function called raises.  *)
C24_ReturnsOrRaisesWithinLimit == []ChatOutcome /\ [][ChatProgress]_vars

(* max_iterations responses that all carried tool calls: one chat returned *)
(* the fixed text                                                           *)
C24_Witness ==
    /\ chat_pc = "returned"
    /\ max_iterations = 2
    /\ Len(completions) = 2
    /\ AllCarriedToolCalls
    /\ chat_result = MaxIterationsText

(* max_iterations responses that all carried tool calls, and chat raised on *)
(* the arguments of the last one                                             *)
C24_WitnessRaised ==
    /\ chat_pc = "raised"
    /\ max_iterations >= 1
    /\ AllCarriedToolCalls
    /\ chat_result # MaxIterationsText

(* ---------------- C25: the messages of chat ---------------- *)

IsPrefix(a, b) ==
    /\ Len(a) <= Len(b)
    /\ \A i \in 1..Len(a) : a[i] = b[i]

(* list ends with the assistant message of response, listing all its tool *)
(* calls, and then the first count tool messages that answer them, one per *)
(* call, in the order of the calls and with their ids                      *)
EndsWithAnswers(list, response, count) ==
    LET first == Len(list) - count
    IN  /\ first >= 1
        /\ list[first] = AssistantMessage(response)
        /\ Len(list[first].tool_calls) = Len(response.tool_calls)
        /\ \A i \in 1..Len(response.tool_calls) :
              /\ list[first].tool_calls[i].id = response.tool_calls[i].id
              /\ list[first].tool_calls[i].function = response.tool_calls[i].function
        /\ \A i \in 1..count :
              /\ DOMAIN list[first + i] = {"role", "tool_call_id", "content"}
              /\ list[first + i].role = "tool"
              /\ list[first + i].tool_call_id = response.tool_calls[i].id

(* C25: the message list of chat only grows at its end; every                *)
(* chat-completion request after the first is sent with a list that ends     *)
(* with the previous assistant message, listing all its tool calls, followed  *)
(* by exactly one tool message per tool call, in the same order and with the  *)
(* matching tool_call_id; while a tool call of the previous response is       *)
(* unanswered no request is sent.                                             *)
C25_ToolCallsAnswered ==
    chat_pc # "idle" =>
        /\ IsPrefix(<< SystemMessage >>, messages)
        /\ \A j \in 1..Len(completions) : IsPrefix(completions[j].messages, messages)
        /\ \A j \in 2..Len(completions) :
              /\ IsPrefix(completions[j - 1].messages, completions[j].messages)
              /\ Len(completions[j].messages) =
                     Len(completions[j - 1].messages) + 1
                         + Len(Responses[j - 1].tool_calls)
              /\ EndsWithAnswers(completions[j].messages, Responses[j - 1],
                                 Len(Responses[j - 1].tool_calls))
        /\ (chat_pc = "requesting" /\ iteration >= 1) =>
              EndsWithAnswers(messages, Responses[iteration],
                              Len(Responses[iteration].tool_calls))
        /\ chat_pc = "executing" =>
              /\ next_call \in 1..Len(tool_calls)
              /\ tool_calls = Responses[iteration].tool_calls
              /\ EndsWithAnswers(messages, Responses[iteration], next_call - 1)

(* a second request was sent after a response with two tool calls, the *)
(* second one to an unknown function: both were answered before it      *)
C25_Witness ==
    /\ Len(completions) = 2
    /\ Len(Responses[1].tool_calls) = 2
    /\ Len(completions[2].messages) = 5
    /\ completions[2].messages[3].role = "assistant"
    /\ completions[2].messages[4].tool_call_id = "call_1"
    /\ completions[2].messages[5].tool_call_id = "call_2"
    /\ Responses[1].tool_calls[2].function.name = "get_directions"

(* ---------------- C26: the routing of execute_function ---------------- *)

ElementsOf(list) == { list[i] : i \in 1..Len(list) }

(* the 9 names the three servers advertise *)
AdvertisedNames == UNION { ElementsOf(ToolNamesOf[server]) : server \in DOMAIN ToolNamesOf }

AdvertisedBy(name) ==
    CHOOSE server \in DOMAIN ToolNamesOf : name \in ElementsOf(ToolNamesOf[server])

(* names given to execute_function: the advertised ones, near misses of them, *)
(* methods of the servers and of the agent that are not advertised            *)
FunctionNameProbes ==
    AdvertisedNames \cup
    { "", "get_directions", "Geocode", "geocode ", "_rate_limit", "_calculate_distance",
      "get_tool_definitions", "execute_function", "weather", "location_weather" }

(* arguments the operation of an advertised name accepts *)
SampleArguments(name) ==
    CASE name = "geocode" -> [address |-> "Paris"]
      [] name = "reverse_geocode" -> [latitude |-> Deg(20), longitude |-> Deg(30)]
      [] name = "search_places" -> [query |-> "cafe", near_lat |-> Deg(10), near_lon |-> Deg(0)]
      [] name = "calculate_route" ->
            [start_lat |-> Deg(0), start_lon |-> Deg(0), end_lat |-> Deg(20),
             end_lon |-> Deg(30)]
      [] name = "distance_matrix" ->
            [origins |-> << <<Deg(0), Deg(0)>> >>,
             destinations |-> << <<Deg(20), Deg(0)>>, <<Deg(20), Deg(30)>> >>]
      [] name = "find_nearby" ->
            [center_lat |-> Deg(0), center_lon |-> Deg(0),
             locations |-> << [name |-> "D", latitude |-> Deg(0), longitude |-> Deg(0)] >>]
      [] name = "get_weather" -> [latitude |-> Deg(20), longitude |-> Deg(30)]
      [] name = "weather_forecast" ->
            [latitude |-> Deg(20), longitude |-> Deg(30), days |-> 3]
      [] name = "location_weather_info" ->
            [latitude |-> Deg(20), longitude |-> Deg(30), location_name |-> "Home"]

(* arguments for names that are not advertised *)
ArgumentProbes == { NoDefaults, [to |-> "Paris"], [latitude |-> Deg(20), longitude |-> Deg(30)] }

(* the operation of that name called on that server itself *)
DirectCall(server, operation, a, upstream) ==
    IF server = "geocoding_server" THEN GeocodingOutcome(operation, a, upstream)
    ELSE IF server = "routing_server" THEN RoutingOutcome(operation, a)
    ELSE WeatherOutcome(operation, a, upstream)

(* the operations that return a record *)
RecordReturning ==
    {"reverse_geocode", "calculate_route", "distance_matrix", "get_weather",
     "weather_forecast", "location_weather_info"}

(* the tool calls chat has answered so far in the iteration it is in, each *)
(* with the tool message that answers it                                    *)
AnsweredCalls ==
    IF chat_pc = "idle" \/ iteration = 0 \/ ~CarriesToolCalls(Responses[iteration]) THEN {}
    ELSE LET done == IF chat_pc = "raised" THEN next_call - 1
                     ELSE IF chat_pc = "executing" THEN next_call - 1
                     ELSE Len(tool_calls)
         IN  { [tool_call |-> tool_calls[i], answer |-> messages[Len(messages) - done + i]] :
                  i \in 1..done }

(* C26: execute_function returns {"error": "Unknown function: <name>"},      *)
(* without raising, exactly for the names that are not among the 9 the three  *)
(* servers advertise; an advertised name is routed to the operation of that   *)
(* name of the server that advertises it.                                     *)
C26_UnknownExactlyUnadvertised ==
    /\ Len(tools) = 9
    /\ Cardinality(AdvertisedNames) = 9
    /\ ElementsOf(tools) = AdvertisedNames
    /\ \A name \in FunctionNameProbes :
          IF name \in AdvertisedNames
          THEN LET server == AdvertisedBy(name)
                   arguments == SampleArguments(name)
               IN  /\ Dispatch(name) = [server |-> server, operation |-> name]
                   /\ Binds(name, arguments)
                   /\ execute_function(name, [unexpected |-> 1], <<>>).raised
                   /\ \A upstream \in Upstream(name, arguments) :
                         LET outcome == execute_function(name, arguments, upstream)
                         IN  /\ outcome = DirectCall(server, name, Bound(name, arguments),
                                                     upstream)
                             /\ (name \in RecordReturning /\ ~outcome.raised) =>
                                    outcome.value # UnknownFunction(name)
          ELSE \A arguments \in ArgumentProbes :
                   /\ Upstream(name, arguments) = { <<>> }
                   /\ execute_function(name, arguments, <<>>)
                          = Returned(UnknownFunction(name))
    /\ \A done \in AnsweredCalls :
          done.tool_call.function.name \notin AdvertisedNames =>
              done.answer.content = json_dumps(UnknownFunction(done.tool_call.function.name))

(* chat has answered a call of a function that does not exist with the error *)
(* record, after a call of calculate_route answered with a route, and goes on *)
C26_Witness ==
    /\ chat_pc = "requesting"
    /\ iteration = 1
    /\ Len(messages) = 5
    /\ tool_calls[1].function.name = "calculate_route"
    /\ tool_calls[2].function.name = "get_directions"
    /\ messages[4].content.json.mode = "walking"
    /\ messages[5].content = json_dumps([error |-> "Unknown function: get_directions"])
    /\ Cardinality(AnsweredCalls) = 2

====
